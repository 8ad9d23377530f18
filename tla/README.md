# A verification project for `hunt`

`hunt` finds jobs, writes resumes and fills application forms. Its components
are independent programs that share files, SQLite databases and sockets. This
directory holds TLA+ models of the parts where order, failure and concurrency
decide whether the program is correct, the TLC configurations that check small
instances of them, and TLAPS proofs of their safety for every instance.

Paths below are relative to the repository root.

## 1. The system

| Component | State it keeps | Operations | Talks to |
|---|---|---|---|
| **C0** gateway and UI (`backend/`, `frontend/`) | sessions, audit log | HTTP routes, proxying | C1-C4 over HTTP, C2 queue in process |
| **C1 Hunter** (`hunter/`) | `jobs` table, enrichment rows with their claims | discover, enqueue, claim, succeed, fail, requeue stale, give out an employer's slots | SQLite, job boards, C2 |
| **C2 Fletcher** (`fletcher/`, worker in `backend/app.py`) | queue of resume jobs, attempts, versions and the selected resume in SQLite; attempt directories, review packages and revisions on disk | enqueue, claim, cancel, move, delete, clear, finish, recover; save, compile, publish, open a package | SQLite, language models, LaTeX |
| **C3 Executioner, product** (`executioner/src/product/`) | `ApplicationQueue` in memory, `jobs.json`, sessions; `ExtensionBridge`: link, pending calls, attachments | add, pause, retry, remove, restore, refresh review, submit, run, shutdown; attach, detach, reconnect | the browser extension over a WebSocket, Chrome over CDP, the employer's page |
| **C3 extension** (`executioner/extension/background.js`) | socket, attached tabs and targets | attach, detach, clean up, react to `onDetach` | the bridge, `chrome.debugger` |
| **C3 Executioner, journeys** (`executioner/src/control/`, `journey/`, `observability/`) | journey record in a state file, event log, run in memory | start, cancel, status, result, terminal commit | page loop, state, event and evidence stores |
| **C3 page loop and session** (`control/orchestrator/loop/`, `browser/session.ts`) | the loop's position, verified fields, owned session; the session's page and whether it is still valid | drive, verify, navigate, recover; start, observe, mutate, navigate, close | Playwright, the employer's form |
| **C3 accounts and mailbox** (`executioner/src/account/`, `mailbox/`, `secrets/`) | account state, ledger of consumed mails | sign in, create, verify | Gmail, Workday |
| **C4 Coordinator** (`coordinator/`) | runs, leases, approvals, events in SQLite or Postgres | build a context, claim, heartbeat, complete, investigate, review, approve, submit, reconcile | C1 and C3 through the database |

Generated and vendored code, page scripts for single employers, corpora,
evidence formats, packaging and CI carry no state of their own worth modelling;
`PROJECT.json` lists them with the reason.

### What is hard here, and what makes each part correct

* **Submission happens at most once.** The click on an employer's Submit button
  cannot be undone. The queue writes its intention to `jobs.json` before it
  clicks; saves fail, the service dies between any two awaits, tabs disappear.
  Correct means: at most one click per posting, never without a durable
  intention, never on contents the owner did not confirm.
* **Every await is an interleaving.** A job's fill, its review action, the
  owner's requests, the 1 s timer and the shutdown share one thread and meet at
  awaits. Correct means: fills of one employer never overlap, a fill and a
  review of one job never do, an error or a shutdown stops everything that
  runs, the limit holds.
* **Two ends of a link.** The service and the extension each believe what they
  last saw; links break at each end at its own time, Chrome's events are late,
  calls time out and are answered afterwards. Correct means: a new link starts
  clean, every tab under the debugger is accounted for, and no command that ends
  late takes down an attachment made after it.
* **One end per journey.** A cancellation, the end of the page loop and the
  failure of any store race to commit the terminal status. Correct means: the
  record, the event log and the published result agree, a durable cancellation
  stands, and the task and every call do end.
* **What is given up goes on.** A browser action that timed out still runs in
  the page. Correct means: after a doubtful effect nothing more can reach the
  employer, a page is left only with its fields verified, a recovery never
  leaves two pages open.
* **Databases shared by workers.** C1, C2 and C4 claim rows, lose workers and
  receive late results; most handlers read before their transaction opens.
  Correct means: only the verdict of a lead's last claim counts, what is
  handed over stays within an employer's slots, no resume row comes back once it
  ended or runs without a worker but for an error of the queue itself, a job is
  never left with a resume that cannot be served, a run is submitted only after
  it was approved.
* **Publication in steps.** A compiled revision is renamed into place, its
  package is written and the job's selection moved on, with deaths and other
  compilations in between. Correct means: what was published never changes, and
  the choice only moves on within its directory.

## 2. The modules

| Module | Models | Code it stands for |
|---|---|---|
| `SubmitOnce` | the promise: intention, then at most one click | `executioner/docs/product.md:82-85` |
| `AppQueue` | the product queue, its file, the employer's page | `product/queue.ts`, parts of `engine.ts` and `server.ts` |
| `TabBridge` | bridge, link, extension and Chrome's debugger | `product/extension-bridge.ts`, `extension/background.js` |
| `JourneyStore` | what the journey's state file answers to a transition | `journey/state-store.ts` |
| `JourneyControl` | start, cancel and the journey's task over file and event log | `control/orchestrator/terminal/`, `observability/events` |
| `BrowserSession` | the page of a journey and the effects in flight | `browser/session.ts` |
| `PageLoop` | the walk through the pages, on `BrowserSession` | `control/orchestrator/loop/`, recovery, driver, verifier |
| `LeadOwner` | the promise: a lead waits for its last claim, whose verdict alone counts, once | |
| `EnrichmentQueue` | jobs of one employer and month, and all who write them | `hunter/db.py`, `verify_public.py`, `enrich_*.py` |
| `ResumeSelection` | attempts, versions, selected resume and the PDFs they name | `fletcher/db.py`, `fletcher/resume/review_store.py` |
| `FletcherQueue` | rows of preparations, requests and the worker thread | `fletcher/db.py`, `backend/app.py` |
| `ResumeReview` | packages, compilation and publication of revisions | `fletcher/resume/review_*.py` |
| `Fletcher` | both of these on one `ResumeSelection`, with deaths | |
| `SubmitGate` | the promise: cleared, approved, submitted, for good | |
| `Coordinator` | runs, leases and the submit gate | `coordinator/service.py` |

`AppQueueProps`, `PageLoopProps`, `EnrichmentProps` and `CoordinatorProps` hold
the properties (and fairness) of their module; the others state them at their end. `MC*` are
instances for TLC; `AppQueueProofs`, `AppQueueSubmitProofs`, `TabBridgeProofs`,
`JourneyProofs`, `PageLoopProofs`, `EnrichmentProofs`, `FletcherProofs` and
`CoordinatorProofs` the theorems.

`JourneyControl` composes the orchestrator with its store, `PageLoop` the loop
with the session, `Fletcher` the queue with the review: several of their
properties only exist in the composition, since the tests of each side use a
fake of the other.

### `AppQueue`

Node runs the queue in one thread, so what executes between two awaits is one
action. Variables follow the class: `jobs`, `limit` (`concurrency`),
`storageError`, `session` (`sessions`), `pc` (the position of `run(job)`; a job
is in `this.running` while `pc # "idle"`), `aborted` (fired controllers), `rev`
(the review action of a job, in `reviewActions` while not idle) and `found`
(the digest a fill returned, before it is published). `disk` is `jobs.json`.
`page`, `wire` and `clicks` are the employer's side: what the review shows, a
click under way and clicks received; they survive a crash of the service. The
owner may edit a page at any time (`Edit`); the history variable `edited` keeps
the pages that were edited while a click for them was on its way.

`SaveOk`/`SaveFails` are `persist()`: a failure sets the error and aborts every
running job. `Pumped` is one whole walk of `pump()`, with the save of each job
it starts; a save that fails pauses that job and ends the walk. Every handler
that ends in a save or a pump includes it. The actions of a fill are `RunOpens`
(bridge.open resolves), `FillSucceeds`/`FillFails`, `RunCloses`/`RunUnwinds`
(release, publication, `finally`), `Deadline`; those of a review action are
`ReviewOpens`, `ReadReview`, `RefreshDone`, `SubmitIntends`, `SubmitClicks`,
`SubmitThrows`, `SubmitReturns`, `ReviewFails`, `ReviewReleased`. A crash is
`Stop`, the constructor is `Restart`.

Abstractions: a digest is the contents of the page; the walk over the pages of a
form is the environment (a fill ends with some contents, fails, or notices its
abort); one posting per add request; `retry` under a storage error is
`RecoverStorage` followed by `Retry`; `configure` matters only by the failure of
its write.

### `TabBridge`

A caller is a fill or a review action that opens, holds and releases its tab.
`extension`, `pending`, `tabs` and `sequence` are the bridge's fields; `link`,
`open`, `cleaned`, `tasks`, `attached`, `owner` the extension's; `debugging`
and `notice` Chrome's. The id of the call that asked for a tab names the
attachment at both ends. Requests and replies are delivered in order per link.
The extension's commands are suspended at their awaits as `tasks` and
interleave with one another, with `onclose` and with `onDetach`. Left out: the CDP
traffic on an attachment, the frame-ready gate, how a tab is chosen or created,
who may open a socket; one undelivered cancellation per tab; the crash of the
service, which to the extension is a link that breaks.

### `JourneyStore` and `JourneyControl`

`file` is the journey's record; `mutations` is the queue of its directory, in
which each caller (a start, a cancel, the task) has at most one transition with
its tries and answer in `request`. A caller goes on with an answer in a step of
its own (`StartSettles`, `CancelSettles`, `TaskCommits`), so everything it read
before may be stale. The task's actions are the awaits of `executeJourney`,
`failJourney` and `commitTerminal`. `log` holds the `journey_terminal` events;
an append that fails may have been written (its event id makes a repetition
harmless). The page loop is the environment here: it ends in review, blocked or
failed, with or without a session, and `PageLoop` shows that it does end. Page
ids stay null in this orchestrator and operation ids are fresh, so neither is in
the record; a process that is lost leaves a journey nobody resumes (the next
process allocates another).

### `BrowserSession` and `PageLoop`

`tab` is what Playwright's pages show, `session` the fields of
`PlaywrightBrowserSession`, `op` the call being served, and `effect` the actions
handed to the page. `bounded()` gives up on an action after its timeout or when
the caller's signal is aborted, but nothing stops the action: it stays in
`effect` and goes on (`Count`, `Click`, `Write`, ...) beside the next call, until its
page is closed. `loop` is `runPageLoop` with what it has seen and verified;
each of its actions takes the result of one call and runs on to the next call.
What the loop asks of its other providers (answers, safety, understanding) only
reads, so it is a choice over what they may say.

Abstractions: one caller, its calls in sequence (the class refuses others);
operation ids are fresh, so the replay guard never bites; the value of an
observation is read when the loop takes the reply, which commutes with what
happens in between; `inspectPage` inside a mutation or a reconciliation has no
bound in the code and is assumed to return; closing the page, its context or the
browser closes the page; a field of another page is gone, and so is the form of a
page that is closed; the attached mode of
the persistent browser and the mapping of blocked outcomes are left out.
A required field that the site has filled and the loop has not verified blocks
the completion of its page.

### `LeadOwner` and `EnrichmentQueue`

The jobs of one employer and month, and everyone who writes them: public and
board lanes of several processes, discovery, maintenance, operators, and C4. A
function is one transaction (SQLite has one writer); only `add_job` acts on what
it read before its own began, hence `AddReads`/`AddWrites`. `recent` (the rows claimed in the
second that runs) and `worker[w].mine` (the row still bears the time of this
worker's claim) are the time of a claim in seconds, which is what a result
compares (`expected_started_at`): a worker whose row was requeued or taken keeps
its claim, and `Lands` refuses its result, unless the row was claimed again in
the same second. `LeadOwner` says what that leaves: of a lead's claims only those
of the last second can decide (`bearers`), and one of them at most does. An operator's
override sets any status (`Reopen`). `Served` is
`_enforce_employer_month_cap`, called wherever the code calls it and nowhere
else. Board results are written without a guard, as in the code.

Left out: the delay before a retry (a waiting row may be due at any step),
numbers of attempts (a row at its limit is failed), texts, dates, scores (which
candidates keep a slot is a choice), deletion, changes of the discovery policy,
the intake tool with a database of its own. `update_job_status` has no caller in
production code.

### `ResumeSelection`, `FletcherQueue`, `ResumeReview` and `Fletcher`

`ResumeSelection` holds what queue and review share: attempts and versions by
pipeline run, the selected resume of each job, the PDFs on disk (named by run
and revision) and the directories that wait for removal. `FletcherQueue` has the
rows, the worker (`Select`, `Claim`, `Begin`, `Prepare`, `Record`, `LoadJob`,
`ReadStatus`, `Finish`: one step per read or write of its own connection) and
the requests, split in the same way. `ResumeReview` has the packages, the
publication lock and the compilers: snapshot, compile outside the lock, promote
the revision, write the package, refresh the selection. A review is opened from a
job in two steps: `OpenReads` reads the attempt and its TeX, `OpenWrites` writes the
package, into a directory it makes again if a removal took it. `Crash` kills the
process between any two steps; what is on disk stays.

Errors have three ways out of the worker. Inside the `try` (`InTry`) `Raises` sends
the row to a report of its failure. Outside of it, when the row cannot be read
back after its claim or the report itself fails, `Escapes` takes the exception to
the loop, which leaves the row as it is and asks for the next. And the recovery at the
start (`StartWorker(FALSE)`) may raise, whereupon the worker is started all the
same and the recovery never repeated (`backend/app.py:441-445`). What the last
two leave running is in the history variable `stranded` until a later process
recovers it.

A removal takes one part of a directory after another: `RemoveSome` the documents
of a run, `PackageRemoved` a package with the file of its lock, `Cleanup` what
is left, or it fails and the directory stays noted with what it still holds. The
history variable `cleared` has the runs that were ever to be removed.

Abstractions: only the `no_summary` version (no other is ever selected);
`delete_artifacts` is set; a pipeline that writes no document is `Raises`; whether
a document fits depends only on the document (`OnePage`); the documents of a run go
in one step of a removal; a review is opened from an attempt whose PDF is there; a
compilation that was begun before a removal may promote into a directory made
again (the code may also fail there, which is `WriteFails` or `GiveUp`); positions of
rows that ended are not kept; edits of a queued row's input, progress, log and the
backfill of old rows are left out.

### `SubmitGate` and `Coordinator`

Callers are HTTP routes, the command line, agents and the scheduler thread, on
connections of their own. A handler selects a row and looks at its status; its
transaction opens at its first `UPDATE` or `INSERT`, which names the row by id
alone. So every handler is a read step that leaves what it read in `call`, and a
write step (three of each for `complete_lease_with_result`). `log` holds what
the events and approvals say of a run: `result`, `cleared`, `approve`, `submitted`;
`submit_allowed` and the approval id follow the approval. Time is abstracted: an
active lease may be due and a waiting run stale at any step. The payload of a
result decides its outcome, so the outcome is a choice. A handler may die after
a first transaction. `BecomesFit` stands for C1 and C2.

Left out: artifacts, notifications, failure reports, `get_pending_fills` (whose
expiry of leases is never committed) and read-only routes. The repository calls
this component paused; its source is kept and modelled as it is.

## 3. The runs

| Run | Instance and bounds | What it shows |
|---|---|---|
| `queue_submit` | 2 job entries for 1 posting, 2 contents, failing saves, crashes | the submission: `SubmitsOnce` (refinement of `SubmitOnce`), `IntentBeforeClick`, `OneLiveJobPerPosting`, `LandsAsConfirmed` |
| `queue_runs` | 2 jobs of 2 employers, limit 2 that is lowered to 1, failing saves | `StoppedMeansAborted`, `FillAndReviewExclusive`, `StartsWithinLimit`, `NoMissedStart` |
| `queue_live` | 2 jobs of 1 employer, limit 2, disconnections | `SerialPerEmployer`, and under fairness `EveryRunEnds`, `EveryReviewEnds`, `FirstInLineStarts` |
| `bridge_links` | 2 callers of 1 tab, 2 links, 3 calls; broken links, time-outs, cancellations | `FreshLink`, `NoStrayDebugger`, `NoOrphan`, `NoLostCall`, `DetachTakesEarlier` |
| `journey_ends` | 2 starts, 2 cancels, 1 retry, 1 aborted caller; every store and the browser may fail | `TerminalAgrees`, `CancelWins`, `SessionReleased`, `TerminalIsFinal`, `EverythingEnds` |
| `page_loop` | 2 pages with a text and an upload, then Review; 3 browser pages, 2 effects in flight, 1 retry of each kind, 2 reads of the verifier | `UncertainIsQuiet`, `OnePageThenNone`, `LeavesVerified`, `DoubtStops`, `LoopEnds` |
| `enrichment` | 1 slot; 2 rows with two out of a busy worker, an event and a row of C4's, or 1 row with 2 workers and 2 events; overrides to `done` and `processing` | `ServedWithinCap`, `OneOwnerDecides` (refinement of `LeadOwner`) |
| `fletcher_queue` | 2 rows, 2 pipeline runs, 1 document, 1 request at a time, 1 death | `RunningHasWorker`, `SelectedIsServable`, `NoRevival`, `EveryItemSettles` |
| `resume_review` | 1 run, 2 compilations at a time, 2 revisions, 1 opened package, 1 edit; an error at every step, no death | `SelectedIsServable`, `PublishedIsCurrent`, `RevisionsAreImmutable`, `RefreshKeepsChoice` |
| `coordinator` | 1 job, 2 runs, of which one gets a result and one an approval, 2 callers, 1 lease | `AppliedWasSubmitted`, `CompletedLeaseHasResult`, `GateHolds` (refinement of `SubmitGate`) |
| `journey_cancel_race`, `page_timeout` | the same instances, fault-free and with one page less | a disagreement each between code and documents (section 6) |

Why the bounds are enough.

* Queue: two entries for one posting are what duplicates, restoring and double
  submission need, and every save failure and crash point of both is explored;
  a third entry only repeats the second. Two jobs are what a limit, an employer
  lock and an overlap need.
* Bridge: a conflict needs two callers, and what is stale needs an old link and
  a new one; three calls let one caller attach twice around a detach of the other
  (four calls, 17.7 million states, show nothing more).
* Journeys: a journey has one task; two starts exercise `activeStart`, two
  cancels their race for one revision.
* Page loop: an effect given up on one page and its successor need two slots. The
  code's default limits of retries are 0; the run takes 1, so that the retry paths
  happen: a start may then be repeated once and a recovery opens one browser page
  more, which makes the three of the run.
* Enrichment: a superseded claim needs two workers on one row and an event
  between them; a slot taken twice needs two rows and something that happens
  behind the cap's back. The constraint `Small` keeps to these two shapes. One row may
  be claimed twice within a second; two different rows are not, which nothing
  in the code relates.
* Fletcher: two rows let a request hit the one that the worker prepares or the
  one that waits, and the moves need both. Two compilations, an edit, an opened
  package and a removal meet at every step of a publication. A death is in
  `fletcher_queue`; to a review it is the error of every request at once
  (`GiveUp`, `WriteFails`, `FinishCompile` without a refresh), and `resume_review` has
  those; the theorems have both. The document of `fletcher_queue` fits its page;
  those that do not are in `resume_review`. `resume_review` starts where a first row has been
  prepared, recorded and selected (`SpecFromPrepared`), a state the queue reaches.
  Its constraint `NothingBegunInCleared` lets what was begun before a removal go on
  and begins no further compilation or edit in a directory that was removed.
* Coordinator: a stale read needs two handlers; two runs of one job are what
  concurrent contexts make. Callers are interchangeable, hence the symmetry. The
  constraint `Small` gives a result and an approval to one run each.
* What a bound or a constraint of a safety property leaves out, the theorems of
  section 4 cover. What it leaves out of a liveness property, nothing does.

The type invariants are proved (section 4) and not repeated in the runs.

Deadlock is checked in the queue's runs. It is off in the others, where calls,
links, requests, rows, runs and revisions are bounded or a journey is over.

`Faults` in a configuration names the failures allowed. Each run allows those
its question is about.

### Fairness

*Queue*: weak fairness of each fill's and each review action's steps, of the
timer and of the end of a drain. The code justifies it: a call to the extension
is answered or times out after 60 s, a fill is aborted by its 30 min deadline,
the timer ticks every second until `close()`. It is an assumption that
`browser.close()` settles (`queue.ts:284`). No fairness of the owner, of
connection, of the employer or of faults. *Journeys*: the file system answers,
the task's providers settle (each takes an abort signal and has a bound), a
caller takes the answer it waits for; nothing forces a request or a failure.
*Page loop*: the loop takes its answers, a call is answered or given up in time,
and an effect goes on. *Fletcher*: the worker thread runs on and a pipeline call
returns; a worker that is down is started again because the page that shows the
queue polls the list endpoint, which starts it (`backend/app.py:3841-3846`); the
process dies finitely often. Nothing forces a request, and nothing makes up for a
recovery that was skipped or a failure that was not reported: `EveryItemSettles`
exempts the rows in `stranded`.

### Every property has a mutant

For each property of a passing run `PROJECT.json` names a definition and a
mutated form of it beside the definition in the module, the way a plausible bug
would change the code (a dropped guard, a late save, a missing release). TLC
finds the property violated with it.

## 4. What is proved

All seven systems have theorems, each for every value of the constants that
satisfies the named assumptions of its module. Together they state every safety
invariant, action property and refinement that a run of section 3 checks without
a counterexample, the type invariant of every system, and two facts about
progress that no run states (`Served`, `Advances`; TLC agrees with both on the
instances of `journey_ends` and `page_loop`).

| Theorem | Statement |
|---|---|
| `QueueInvariant`, `QueueTypeOK` | `Spec => []IInv`, `Spec => []TypeOK` of `AppQueue` |
| `QueueOneLiveJob`, `QueueIntentBeforeClick`, `QueueFillAndReviewExclusive`, `QueueSerialPerEmployer`, `QueueStoppedMeansAborted` | the invariants of these names |
| `QueueStartsWithinLimit` | `Spec => StartsWithinLimit`: no walk starts a job beyond the limit |
| `QueueNoMissedStart` | `Spec => NoMissedStart`: no step but a connection leaves a job waiting that could start |
| `QueueLandsAsConfirmed` | `Spec => LandsAsConfirmed`: what lands is what was confirmed, or the owner edited it after it was compared |
| `QueueSubmitsOnce` | `Spec => SubmitsOnce`, the queue implements `SubmitOnce` |
| `BridgeInvariant`, `BridgeTypeOK` | `Spec => []IInv`, `Spec => []TypeOK` of `TabBridge` |
| `BridgeFreshLink`, `BridgeNoStrayDebugger`, `BridgeNoOrphan` | the invariants of these names |
| `BridgeDetachTakesEarlier` | `Spec => DetachTakesEarlier`: an attachment falls to a detach that was sent after it was asked for |
| `BridgeNoLostCall` | `Spec => []NoLostCall`: a call somebody waits for is asked, under way or answered |
| `JourneyInvariant`, `JourneyTypeOK` | `Spec => []IInv`, `Spec => []TypeOK` of `JourneyControl` |
| `JourneyTerminalAgrees`, `JourneyCancelWins`, `JourneySessionReleased` | the invariants of these names |
| `JourneyTerminalIsFinal` | `Spec => TerminalIsFinal` |
| `JourneyNoLostCaller` | `Spec => []Served`: whoever waits has a command, an answer or a task to wait for |
| `PageLoopInvariant`, `PageLoopTypeOK` | `Spec => []IInv`, `Spec => []TypeOK` of `PageLoop` on `BrowserSession` |
| `PageLoopUncertainIsQuiet`, `PageLoopOnePageThenNone` | the invariants of these names |
| `PageLoopLeavesVerified`, `PageLoopDoubtStops` | the action properties of these names |
| `PageLoopAdvances` | `Spec => Advances`: every answer brings the loop nearer its end |
| `EnrichmentInvariant`, `EnrichmentTypeOK` | `Spec => []IInv`, `Spec => []TypeOK` of `EnrichmentQueue` |
| `EnrichmentServedWithinCap` | `Spec => []ServedWithinCap` |
| `EnrichmentOneOwner` | `Spec => OneOwnerDecides`, the queue implements `LeadOwner` |
| `FletcherInvariant`, `FletcherTypeOK` | `Spec => []IInv`, `Spec => []TypeOK` of `Fletcher`: queue, selection and review |
| `FletcherRunningHasWorker`, `FletcherSelectedIsServable`, `FletcherPublishedIsCurrent` | the invariants of these names |
| `FletcherNoRevival`, `FletcherRevisionsAreImmutable`, `FletcherRefreshKeepsChoice` | the action properties of these names |
| `CoordinatorInvariant`, `CoordinatorTypeOK` | `Spec => []IInv`, `Spec => []TypeOK` of `Coordinator` |
| `CoordinatorAppliedWasSubmitted`, `CoordinatorCompletedLease` | the invariants of these names |
| `CoordinatorGate` | `Spec => GateHolds`, the coordinator implements `SubmitGate` |

**Queue, the submission.** `IInv == TypeOK /\ CommitInv /\ ActivityInv`. None of
the properties is inductive alone. A click that lands is the first of its posting
only because no other live job has the posting, because memory and file agree on
which jobs are committed (so a crash cannot bring back a job that already
clicked), and because a job that has yet to click has nothing on its way:
`CommitInv`. And the step that records the intention finds the job in review,
with no fill on it, only because of what may work on a job in which status:
`ActivityInv`. The argument is laid out by kinds of steps. `Becomes`, `Stored` and
`Moves` say what any save and any walk of `pump()` can do to entries and counters;
the lemmas about them carry `RunKeeps`, `RequestKeeps`, `BorderKeeps` (add, remove,
restore: the set of live jobs changes), `ReviewKeeps` and `LifeKeeps`. The
intention (`IntendsKeeps`) and the landing (`LandsKeeps`) are the only steps
that are steps of `SubmitOnce`; every other one stutters. `PageInv` (while a click
is on its way the page shows what it carries, or is in `edited`) gives
`LandsAsConfirmed`: a fill cannot touch that page, because its job is committed and
`ActivityInv` allows no fill on a committed job. Only the owner can.

**Queue, the fills.** `RunInv == SerialPerEmployer /\ StoppedMeansAborted` is
inductive on top of `IInv`. Whatever a save, a failed save or a walk writes is
covered by one lemma (`WritesKeep`). That a walk fits is `WalkFits`: the jobs it
starts have employers that differ from those of the jobs running and of those it
started before, and the last job it started, which the well-foundedness of the
order provides, was started below the limit; the cardinalities then bound all of
them. The proof uses that "same employer" is symmetric, which rests on
`TargetAssumption`: a host belongs to one kind of system.

`NoMissedStart` is the other half of a walk: what it leaves waiting does not fit.
A walk ends when no startable job is left or when a save failed, and then
nothing waits, because of the storage error; a step without a walk makes no room
(`PumpWakes`, `StoppedWakes`, `QuietWakes`, then one lemma for each kind of step). The
connection is the exception in the statement because it is the one in the code: a
socket that opens does not call `pump()`, the timer does.

**Bridge.** `IInv == TypeOK /\ LinkInv /\ NoStrayDebugger /\ IdInv /\ WaitInv /\
AllCovered /\ LateInv /\ OrderInv`. The two ends agree only through ids and links.
Every command and attachment of the extension belongs to its last link, a new link
opens only when they are gone, and the queues of later links are empty (`LinkInv`).
A call is in one place at a time, asked, under way or answered, and its id is used
once (`IdInv`). An attach that is asked, under way or answered is waited for or
known to be late (`WaitInv`), so an attachment that the service does not know is in
the link, asked back, or late (`AllCovered`). Nothing takes a late one down before the
next reconnection; `LateInv` shows that nobody waits for it or holds it, and
both give `NoOrphan`. `OrderInv`, that whatever is still asked was asked after all
that the extension has begun or attached, gives `DetachTakesEarlier`: a detach that
arrives is later than the attachment it finds. `NoLostCall` is inductive on top
of `IInv` and follows a call through its places: what the extension refuses, undoes
after a cancellation or finishes late still puts a reply in the link in the step
that drops the command.

**Journeys.** `IInv == TypeOK /\ StartInv /\ QueueInv /\ AskInv /\ TaskInv`. One
start is under way at a time, and before the task. The store's queue holds
commands only of callers who wait for them. A positive answer that a caller has
not yet taken is still borne out by the file (`AskInv`): the record only moves
forward (`FileLater`), so what an answer said of an end or of a cancellation
stays true until the caller acts on it, however late. `TaskInv` is what the task
has done by each of its awaits. `Served` is inductive on top of it: taking a
command off the store's queue and answering it are one step, a retryable answer
that is dropped puts its command back, a task that has begun never goes back to
none, and each way out of a start takes the mark `activeStart` back. So what
`EverythingEnds` adds to it is fairness only.

**Page loop.** `IInv == TypeOK /\ SessionInv /\ OpInv /\ LoopInv /\ NavInv /\
PageInv`. The session's page is open and no other is, except one being closed; a
doubt is reported only when the page is gone (`SessionInv`). The call being served
fits the loop's place (`OpInv`). The loop owns the open session, and after a
failure it drives no more (`LoopInv`). A click that may still happen leaves a page
that the loop has seen and verified, while the loop waits for the click or after it
gave it up (`NavInv`). Every step of the loop leaves the session alone and ends
in a call, so one lemma (`Called`) carries them all; the steps of the session and
of the effects leave the loop alone and are carried by `Replies`, `Releases`,
`Works` and `Unheard`. The action properties follow from `IInv`. `Advances` orders
the loop's states by the part of the loop, the pages it may still leave, its place
on the page, the fields not yet driven, the attempts of the retry in progress and
the reads of the verifier, and shows case by case that each answer lowers the first
of these that it changes (`StepCloser`). Each has a limit, so the loop takes finitely many
steps whatever it is answered; that it takes them is what fairness gives `LoopEnds`.

**Enrichment.** `IInv == TypeOK /\ HeldRows /\ AdderInv`. `OneOwnerDecides` maps
the time that a row shows to `bearers`, the workers whose claim it is: one at most,
unless claims fall into one second. Each action is then a step of `LeadOwner`: a
claim is `Take`, which leaves earlier bearers only of a lead claimed in the same
second; a result that lands is `Verdict`, which takes the mark from every bearer, so
that there is one for each claim; one that does not land, and a death, are
`Leave`; whatever else takes the row out of the public lane is `Lose`; an override to
`processing` is `Reopen`. Nothing is assumed of seconds or of operators.
`ServedWithinCap` rests on `CapInv`: a
removed posting is not eligible, and the offers (eligible, with no reason against
them and not applied for, whether their enrichment is done or not) are at most
`Slots`, no two of one posting. After slots are given out this holds by what the
code keeps (`ServedFits`; of two copies one stands at most, `OneStands`); every
other write makes no new offer (`NoMore`, `LessFits`).

**Fletcher.** `IInv == TypeOK /\ QueueInv /\ RunInv /\ DiskInv /\ CompilerInv /\
PackageInv /\ SelectedIsServable`. The row the worker holds is the only one running
that is not in `stranded` (`QueueInv`, which has `RunningHasWorker`): every way out of the
`try` keeps the row until its failure is reported, and what `Escapes` or a
skipped recovery leave behind is noted in the same step. Nothing a run made is ever taken for that of
another because runs are numbered in turn: what exists belongs to earlier runs, an
attempt's PDF is its own run's and was never to be removed (`cleared`), and the run that
the worker is about to record is known to nobody (`RunInv`). A path on disk has
one contents (`DiskInv`). What a compilation promoted stands until its run is
to be removed, and a run that was has no record and gets none, so what is attached
late is either there or never selected (`CompilerInv`). A package backs what it shows,
unless its directory was to be removed (`PackageInv`). The search
for a free revision ends because a directory holds at most `MaxRevisions`
documents; the smallest free number exists by well-foundedness.

**Coordinator.** `IInv == TypeOK /\ CallInv /\ GateInv /\ LeaseInv /\
AppliedWasSubmitted`. A handler writes on what it read, and another may have
written since; what keeps the gate is that the facts it relies on never cease
to hold. `CallInv` says, for each pending handler, which of the facts it read
are of that kind (a log and a lease's run only grow or stay), `GateInv` which
log a status implies, `LeaseInv` which log a completed lease implies.

## 5. What is only model-checked

Liveness under fairness: `EveryRunEnds`, `EveryReviewEnds` and `FirstInLineStarts`
of the queue, `EverythingEnds` of the journeys, `LoopEnds` of the page loop and
`EveryItemSettles` of Fletcher hold on the instances of section 3. The prover
handles neither `ENABLED`, which fairness is made of, nor induction over data,
which it takes to conclude from a measure that it reaches its end. What is proved
of their safety half is `NoMissedStart` for `FirstInLineStarts`, `Served` for
`EverythingEnds`, `Advances` for `LoopEnds`, and `NoLostCall` for the bridge, whose
calls the queue waits for. The two disagreements of section 6 are
counterexamples of TLC's.

## 6. Findings

Shown by a run:

1. **A cancelled journey may never end** (`terminal/index.ts:261` and `:220`,
   run `journey_cancel_race`): the task commits a status the durable
   cancellation forbids, or with a revision it made stale.
2. **A navigation that timed out clicks afterwards** (`browser/session.ts:428`,
   run `page_timeout`): `browser_timeout` is legal only if no effect began
   (`component-boundaries.md:61`), yet the action that counts the Next buttons is
   not stopped, and goes on to click. The page loop itself then closes the
   session; other callers of the session have only the answer.

Met while modelling; the models contain the behaviour, the properties are stated
so that they do not deny it, and no run is spent on them:

* A refused refresh releases the session of a running fill (`queue.ts:151`): the
  refusal is thrown inside the `try` whose `finally` releases. A stale release
  detaches a newer attachment (`extension-bridge.ts:137`), against the comment at
  line 128.
* So does a failing open (`:129-131`): the guard looks at the bridge's own map, and
  the detach names the tab only. One caller's tab is attached, the user cancels
  debugging, another caller attaches the tab and its answer is in flight; the first
  open now fails, finds its own entry still there, and its detach takes down the
  attachment of the second.
* An attach that is answered after its 60 s stays attached until the link is
  replaced, and every later attach of the tab is refused (`extension-bridge.ts:104`).
* The digest is compared before a click that may wait 15 s (`engine.ts:475`), so
  an edit in that time is submitted; `LandsAsConfirmed` makes this one exception.
* A cancelled journey whose session does not close is refused its `failed`
  (`terminal/index.ts:297`; the store forbids it from `cancelling`).
* After a timeout with a readback that finds nothing the effect is repeated
  (`session.ts:349-354`) while the first may still land: an operation may apply
  twice (`component-boundaries.md:67`).
* Claims are timed in seconds: of a lead claimed twice within one, either result
  may be the one that lands (`hunter/db.py:1188`). An operator who sets `processing` leaves a public lead
  that nobody may claim (no start time), or gives it back to a superseded worker.
* An operator's override, C4's write of `applied` and a board failure do not
  give out slots again, so a copy of an applied posting may stay ready until the
  next enforcement (comment at `hunter/db.py:1619-1621`); board failures are stored as
  `job_removed: ...`, which the cap's comparison with `job_removed` never matches
  (`:1627`, `:1681`), so a removed board job keeps its slot.
* Clearing generated resumes looks for active rows; a cancelled row whose worker
  still prepares is not one (`fletcher/db.py:578`, `fletcher/README.md:116,127`).
* A recovery that raises is skipped for as long as the process lives
  (`backend/app.py:441-445`), although an interrupted row "must be made claimable
  again" (`fletcher/db.py:174-179`). The report of a failure is not guarded
  (`:819-820`), and `claim_next` reads the row back after its commit (`fletcher/db.py:763`):
  if one of these raises, the row stays running until the process is started anew or
  it is cancelled, and cannot be deleted nor the resumes cleared meanwhile.
* A review that is opened while the resumes are cleared makes its directory and
  package again (`review_store.py:91`), which stay. The removal takes the lock's file,
  which "must not be unlinked" (`review_io.py:33`): two may then hold the lock of
  one directory.
* Two concurrent `build_apply_context` calls open two runs of a job
  (`docs/C4_COORDINATOR.md:114`); two workers may get active leases of one run
  (`service.py:888`); a lease that timed out meanwhile is completed (`:1014`); an
  approval read before a denial overwrites it (`:1673`, `:1722`); a reconciliation
  may overwrite a submitted run's status.

## 7. What is not modelled, and why

* Page scripts, locators, form understanding, scrapers and document generation
  are judged against the outside world, not against a state machine. They are the
  larger part of the code, so the models cover a small share of its lines.
* HTTP routing, pairing and privacy admission are validation without
  interleavings of their own. The CDP traffic proxied by the extension is data.
* The account lifecycle and the mailbox: sign-in, creation and verification are
  decided by Gmail and the sign-in page.
* Journey recovery has no caller but the acceptance compositions, and makes the
  transitions that `JourneyControl` has.
* The scheduler loop of C4 (its handlers are modelled), retries' delays and
  attempts of C1, the liveness of claims (no fairness is promised to a lead).
* Two processes on one state directory, power loss during a rename, a torn line
  in the event log.

## 8. Plan

1. The ledger of verification mails (`composition/private/s2-verification-replay-ledger.ts`)
   with two fills of one account on one mailbox.
2. `JourneyControl` over `PageLoop` in place of its environment, and journey
   recovery on the same store.
3. Theorems: every safety property of a run has one. What items 1 and 2 add needs
   theirs: the ledger's guarantee, and that a journey over the page loop implements
   the journey over its environment.
