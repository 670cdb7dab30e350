# TLA+ models of the factory orchestrator

The repository is a software factory: GitHub issues, labels and comments drive
role runs (planner, architect, implementer, reviewer, release, ...), each a
Claude session in a checkout of a consuming repo. The orchestrator,
`orchestrator/src/factory_orchestrator/`, is the long-running service that
takes GitHub's events in, decides what runs, bounds and serialises the runs,
publishes what they made, and finds work that was dropped. These modules model
that service. What an agent does in its session is a nondeterministic choice
everywhere.

Paths below are relative to `orchestrator/src/factory_orchestrator/` unless
they say otherwise.

## 1. Inventory

### 1.1 The core and its parts

| Component | Code | State it keeps | Operations |
|---|---|---|---|
| Delivery queue | `ledger.py` (deliveries), `webhook.py` (worker) | table `webhook_deliveries`; in memory the lock table, counts, semaphore, coroutines | `record_delivery`, `claim_pending`, `finish_delivery`, `requeue_processing`, `worker_loop`, `process`, stop and start |
| Run ledger | `ledger.py` (runs), `main.py` | table `runs` | `start_run`, `finish_run`, `interrupt_unfinished`, `list_runs`, `close_interrupted_runs` |
| Router | `router.py` | none; GitHub's labels, comments, milestones, pull requests are its state | `route` with one branch per event; `approve_gate`, `release_chain`, `ship`, bugs and test cases, expedite |
| Pipeline graph | `graph.py` | one invocation: its pending roles and rounds | `route_node`, `execute_role`, `chain_node`, the fan-out, the processor |
| Run guards | `guards.py` | label `factory:in-progress` | `mark_in_progress`, `clear_in_progress`, `verify_no_op` |
| Reconciler | `reconcile.py`, `main.py` | none of its own; reads labels and runs | `sweep_repo`: stale marker, restarts, giving up, missed steps |
| Build environments | `issue_workspaces.py`, `role_runner.py`, `graph.py` | copies and `meta.json` on disk; locks, queues, holders, session slots in memory | `hold`, `prepare`, `sweep`, `discard`, `_session_slot`, `build_environment`, `train_turn` |
| Role runner | `role_runner.py` | one session and its branch | session, tests, resume on red, push, pull request, timeouts |
| Kept work | `issue_workspaces.py` | conversations, bundles of unfinished work | `save_conversation`, `load_conversation`, `save_wip`, `restore_wip` |
| Master copies | `repo_cache.py` | one clone per repo | `refresh`, under a lock per repo |
| Tokens | `github_app.py`, `token_refresh.py` | token cache | `installation_token`, `cache_token`, retry on 401, refresh from the Console |
| Claim and settings | `claim.py`, `config.py`, `models.py`, `console_secrets.py` | none | lookups |
| Around them | `ask.py`, `attachments.py`, `live_log.py`, `usage.py`, `claude_stream.py`, `writing_lint.py`, `next_step.py`, `factory_ci.py`, `devapp.py` | logs, questions | I/O and text |

`PROJECT.json` lists every part of the repository, hooks, prompts, the GitHub
Actions engine, documents, tests and deployment included, each with what is
modelled of it or why it is not.

### 1.2 How they interact

```
 GitHub webhooks   Console dispatch     reconciler thread, every interval
        \                |                     /       ^ reads labels and runs
         v               v                    v        |
   +------------------ webhook_deliveries (database) ----------------+
   |  pending -> processing -> done | failed                         |
   +-----------------------------------------------------------------+
                          | worker: one delivery per issue at a time,
                          |         worker_concurrency in all
                          v
       route_node -> [execute_role -> chain_node]*      one invocation
                          |
      runs row, factory:in-progress, turn on a build environment,
      session slot, Claude session, push, finish_run, marker off
```

- The database and GitHub survive the process. Locks, queues, slots, coroutines
  and the graph's invocation do not.
- The worker is one asyncio thread; each delivery's processor runs in a thread
  of its own; the reconciler and the sweep of copies are further threads.
- A delivery's thread key is its issue, so an epic and its task are different
  threads and may act on the same issue at the same time.
- A payload carries the labels of the moment the event happened, while it may
  be routed hours later. Only a restart's route looks at the issue again.
- The reconciler never acts on its own: it puts deliveries into the same queue.

### 1.3 What is hard, and what makes each component correct

- **Delivery queue.** Interleavings of claims, locks that are forgotten when
  nobody is counted on them, redelivery, crashes with rows at `processing`,
  statements that fail in the worker. Correct when: one delivery of an issue at
  a time, in order, once per life of the process; slots and locks are
  conserved; a stamp is final; an accepted delivery is eventually stamped.
- **Build environments.** Threads over shared directories, two nested turns and
  a semaphore, two janitors that delete what they judged from a file read
  earlier, half-written files, restarts. Correct when: one run per copy,
  releases that land on one branch take turns, nobody waits in a circle, slots
  are conserved, a copy in use is not deleted, the report shown to people is
  true.
- **Run recovery** (run ledger, reconciler, guards, and the graph and router as
  far as one issue sees them). Stale reads, two threads on one issue, calls to
  GitHub that fail, stops between any two steps, retries that must end, work
  that must not be forgotten. Correct when: retries are capped, a restart never
  repeats what is done, an issue left unfinished is run again or handed to a
  person, a dead marker goes.
- **Router's gates and document chain.** Approvals under approver lists,
  reverts, expedite, payloads that waited, the App's own label coming back as an
  event, stops between the merge, the two labels and the run. Correct when: no
  stage runs before its gate, an approval is acted on, an expedited epic does
  not stay at a gate.
- **Release scope, promotion, system tests.** Loops over several issues whose
  mark is written first or last; listings that may fail; threads of two issues
  that meet only on GitHub. Correct when: nothing in scope starts early, all of
  it starts once, an epic ships when all its parts are merged and not before, no
  bug open at the approval is released unconfirmed.
- **Role runner's loop and kept work.** Timeouts against late answers, red
  tests that resume the agent, pushes by someone else, files written in two
  steps, a stop between them. Correct when: a success is on GitHub, unfinished
  work comes back, every run ends.
- **Tokens** (not modelled). A token that expires during a run.

The hazards, each at its line with the properties that cover it, are in
`PROJECT.json`.

## 2. Modules

| Module | What it is | Proofs |
|---|---|---|
| `Inbox` | abstract: what the queue promises whoever hands it an event | |
| `DeliveryQueue` | the deliveries table and the worker; implements `Inbox` | `DeliveryQueueProofs` |
| `BuildEnvironments` | copies, turns, session slots and the janitors that delete copies | `BuildEnvironmentsProofs` |
| `RunRecovery` | one issue: its runs, its marker, its deliveries, the sweep | `RunRecoveryProofs` |
| `EpicGates` | one epic from intake to its Dispatcher: gates G1 and G2, the chain, expedite | `EpicGatesProofs` |
| `ReleaseGate` | one milestone: trackers, gate G0, the fan-out to intake | `ReleaseGateProofs` |
| `SystemTests` | one epic's cases, bugs and fixes, the Dispatcher, gate GS | `SystemTestsProofs` |
| `Promotion` | an estate of repos and epics: promotion pull requests, gate G3 | `PromotionProofs` |
| `RoleSession` | the runs of one environment: work, tests, push, conversation | `RoleSessionProofs` |
| `MC...` | the small instances TLC checks, where a constant is not a literal | |

How they fit together: `DeliveryQueue` promises what `Inbox` says, one delivery
of an issue at a time and in order. `RunRecovery`, `EpicGates`, `ReleaseGate`,
`SystemTests` and `Promotion` each take that promise for granted: a thread per
issue works on the head of its deliveries, which stays until the invocation
ends, and a stop leaves it there. `BuildEnvironments` decides when a run may
enter a copy; `RoleSession` is what the runs inside one copy do one after
another. `RunRecovery` follows one stage through failure, while `EpicGates`
follows an epic over its stages and leaves failure to it.

A definition that starts with a comment "A plausible slip" is not part of a
model. It is the form a nearby bug would give the definition after it, kept to
show that the properties notice.

### 2.1 `DeliveryQueue`

State: `status` and `arrival` are the rows of `webhook_deliveries` (`arrival`
is `received_at` as an order). `worker` is the loop of `webhook.py`; `task[d]`
says where the coroutine `process` of delivery `d` stands; `lock`,
`issueLocks`, `waiting`, `ticket` and `slots` are the locks it was handed, the
table `issue_locks`, the counts beside it, the queue of asyncio's FIFO locks
and the semaphore.

The event loop is one thread, so an action is the code between two awaits:

- `RecordDelivery`: the endpoints and the reconciler; a known guid changes nothing.
- `ClaimPending`: one turn of `worker_loop`, from the claim to the creation of
  the batch's coroutines. `ClaimFails`: the claim raises and the loop ends.
- `AcquireLock`, `AcquireSlot`, `ProcessorEnds`: `async with lock, slots` and
  the processor in its thread.
- `Finish`: the stamp, both `with` exits and the `finally` that counts off.
- `StampRaises`, `LoseStamp`: `finish_delivery` raising inside the `try`, and
  inside the `except`.
- `StopWorker`, `Drained`, `Crash`, `StartWorker`: a clean stop waits for what
  is in flight; a crash does not; a start requeues what it finds at
  `processing`. `RequeueFails`: `requeue_processing`, the loop's first
  statement and outside any `try`, raises. The service then answers without a
  worker, and rows an earlier process left stay at `processing`
  (`webhook.py:103`).

The processor's work is one nondeterministic step here. `RunRecovery` opens it
up and in turn takes the queue's promise for granted: its `inbox` is a sequence
whose head stays until its invocation ends.

### 2.2 `BuildEnvironments`

Every run is a thread with a program counter. `TurnsOf` translates
`build_environment` and `train_turn`: which environment a run works in, and
which staging turn a cross-repo task's release takes before it. A run takes its
turns in order (`TryLock`, `AcquireLock`, `BecomeHolder`), then a session slot
(`TakeSlot`), prepares its copy, writes `meta.json` in two steps because
`write_text` truncates first (`WriteMeta`, `FillMeta`), works, touches
`meta.json` again, and leaves in reverse order. The janitors are the
reconciler's `sweep` and the delivery worker's `discard`: each lists homes,
reads one `meta.json`, decides, and removes under the lock that the file's
content names. `Restart` kills every thread and keeps the disk.

Git's share of a reset is abstracted to success or failure; conversations and
bundles inside a home are the subject of `RoleSession`; its notes are left out.
A janitor's lookup of a closed issue may fail (`Keep`). At most one discard is
under way at a time in the model.

A run's entry goes into the queue before `on_wait` writes its status to the
ledger, and that write may raise (`WaitRaises`, `issue_workspaces.py:182`; the
write before a session slot is `SlotWaitRaises`). The run then leaves its outer
turn, if it has one, and ends (`GoesOut`), and its entry stays in the queue of
a turn nobody waits behind. `strays` remembers whose entries these are;
`ReportIsTrue` excepts these entries and no others.

### 2.3 `RunRecovery`

One issue. `state`, `blocked`, `marker` and `notices` are its labels and the
marks in its comments; `runs` its rows in the ledger, oldest first; `inbox` its
deliveries; `spent` the guids `restart-<run id>` the table knows. Two graph
invocations may act on the issue, the one of its own deliveries and the one of
its epic (`doing["own"]`, `doing["epic"]`), and `sweep` is where the
reconciler's pass stands and what it has read.

- `Route` is `route_node` with the router's branches one issue meets: a
  comment, a label event (the sweep's included) and a restart. Comments and
  label events are judged by the labels in the payload, as in the code; a
  restart by the issue as it is now.
- `StartRun` to `ClearInProgress` are `execute_role` in its order: row, marker,
  agent, `finish_run`, marker off. `Chain` is `chain_node`, which reads the
  issue again.
- `SweepLists`, `SweepReads`, ... are `sweep_repo` for this issue, one action
  per call: list, read runs, clear a stale marker, then one of restart, requeue
  a missed step, give up (comment, then label), or pass on. `ReconcilerDies` is
  the reconciler's thread ending because the list of repos could not be read.
- `TimePasses` is ten minutes. `age` 0, 1 and 2 tell apart just now, past
  `RETRY_AFTER` and `STALE_MARKER_AFTER` (10 minutes), past `STALL_AFTER` (20
  minutes); nothing in the code tells more apart. It does not happen between a
  pass's list and its read of the runs, because the code takes `now` before.
- `Restart` is a stop and a start: `close_interrupted_runs` runs before the
  worker, then what was at `processing` is pending again.

Each call to GitHub that the code makes may raise (`Raises`), where the
instance allows it (`Failing`), and so may the two ledger writes of a run:
`StartRaises` ends the delivery before there is a row (`graph.py:564`),
`FinishRaises` leaves the row open behind a run that is over (`graph.py:707`).
A restart's route may raise like any other (`RouteRaises`); its guid is spent
by then, so `dropped` remembers that this restart is gone. The sweep reads the
newest `ReadLimit` runs (`list_runs`' `limit=20`, `reconcile.py:303`); the
instances take 3 and 20. `overtaken` remembers that the epic's thread moved the
issue between the route of a delivery and the start of its run.

Left out: comments of people who are not authorised, the round cap of 32 on an
expedited chain (`EpicGates` has it), the sweep of approved releases
(`ReleaseGate`), the gates (`EpicGates`), people who take labels off by hand,
and a replay of the epic's own delivery.

### 2.4 `EpicGates`

One epic. `labels` are its factory labels, `doc[g]` the pull request with the
document of gate `g`, `inbox` its deliveries with the labels each payload
carried, `thread` where the delivery at work stands.

- People: `Comment` (Approved, or a reply), `ApproveByHand` (the approved label,
  with or without taking the ready label off), `PutExpedite`, `TakeExpedite`.
- `RouteOpened`, `RouteComment` and `RouteLabel` are the router's branches. Each
  judges by the payload. `Reverted` is the revert of a label put on by somebody
  who may not; the App's own flips come back as label events.
- A label put on by somebody who may not stays until its event is handled.
  `foreign` is whose labels these are, `slipped` the gates that were passed
  meanwhile: a reply was written, and so carries the label in its payload, or a
  chain read the expedite.
- `approve_gate` is `MergeDocument` (or `MergeFails`), `DropReady`,
  `AddApproved`, then the stage behind the gate; a document that was merged
  before is no obstacle, which is what makes a replay harmless.
- `StartRole` is `fan` with its round cap; `Finishes`, `StandsDown`,
  `AsksPeople` and `RunFails` are the ends of a run; `ChainFollows` and
  `ChainEnds` are `chain_node`, by the labels of the moment.

### 2.5 `ReleaseGate`

One milestone of a gated repo. `tracker[k]`, `labels[i]`, `inMilestone` and
`filed` are GitHub; `opening`, `handling[i]` and `releasing[k]` are the threads
of the milestone's event, of an issue and of a tracker.

- An issue's handler looks at the tracker first (`LookAtTracker`), may open one
  (`OpenTracker`), and changes its labels afterwards (`DropLabel`, `AddLabel`),
  by which time the release may be out. `RunIntake` is the run behind it.
- A tracker's thread plans (`EndPlanning`), approves (`Approve`), and dispatches:
  `ListMembers`, `TakeOffBacklog` and `PutInIntake` for each, `PostReceipt`,
  then `FanOut`. `SweepTracker` is the reconciler's event for a tracker that is
  approved and has no receipt.
- `HandlerRaises`, `ReleaseRaises` and `Restart` break a handler off between any
  two calls. What is done stays done.

### 2.6 `SystemTests`

One epic between its build and production. `kid[k]` is a case or a bug with its
labels and its `Blocked by` lines, `task[t]` a code task or a fix, `policy` the
repo's testing policy. `doing[k]`, `epicDoing` and `report[r]` are threads.

- `Verdict`, `SkipCase`, `CloseByHand`, `CommentBug`, `FileBug`, `OnEpic` and
  `Land` are people and the build. `CloseByHand` closes a bug, whose close asks
  for the Dispatcher, or a case (a person, or the Test Planner that withdraws
  it), whose close asks for nothing: the router re-dispatches for the titles
  `task` and `bug` alone (`router.py:2100`). `Route` decides by the payload what a comment
  does; `FileFix`, `LinkFix`, `Drop`, `Add`, `Close`, `End` do it call by call.
- `Dispatch` is a run of the Dispatcher in one step: cases whose tasks have
  landed become testable, bugs whose fixes have landed go to re-test, a complete
  epic moves on. It runs only where `asked` says that somebody asked for it.
- `RouteEpic` is Skip tests and Approved at gate GS; `SkipDrop`, `SkipAdd`,
  `SkipClose`, `NextCase` skip the cases one by one. `OpenBug` to `LinkBugFix`
  raise a report. `CallRaises`, `EpicCallRaises`, `ReportRaises` and `Restart`
  break any of them off, comments (`say`) and reads of an issue included. A
  listing of bugs or cases that fails reads as nothing open (`router.py:969`,
  `:1037`), so such a failure does not end the handler but lets gate GS open, or
  Skip tests find nothing to skip.
- `missed` is what was to run the Dispatcher and did not: a call that raised
  (`"raise"`), a Skip tests that was stopped (`"stop"`), a case closed by hand
  (`"hand"`). A run of the Dispatcher clears it. `withdrawn` are the cases that
  were closed by hand.

### 2.7 `Promotion`

`pr[p]` are the promotion pull requests, `epic[e]` and `task[e][r]` the state
labels, `thread[p]` the delivery of one merge. `PromotedEpics`, `Choose`, `Ask`,
`Answered` are `promoted_epics` and `open_promotions`, repo by repo; `Tell` is
the notice; `TakeEpic`, `PutEpic`, `ListTasks`, `PutTask` are `ship`, label by
label. A listing that fails counts as a promotion still open (`AskFails`). The
threads of two repos' merges interleave at every call.

`PromotionOpen` is a test on text. A promotion is an epic's own by its title or
because its body mentions `owner/repo#n`, and the mention is looked for as a
substring: `#1` is found in a body that names `#12` (`router.py:637`). The
constant `ReadIn[e]` says in whose mentions `e` is found; an epic
that took another's promotion for its own is in `misread`, and stays on staging
when that one merges. `Tell` looks for its mark in the comments, and comments
that cannot be listed read as none (`router.py:684`): the notice is posted once
more, and `unread` counts it (`TellUnread`).

### 2.8 `RoleSession`

A branch is the set of its commits, the work a set of numbered pieces. There are
two factory branches (`Branches`), the task's and one other, because the push is
of whichever the agent left HEAD on (`role_runner.py:289`). `github`,
`copy`, `wip` and `conv` are the branch on GitHub, the copy, the bundle of
unfinished work and the kept conversation; `run` is the run that holds the turn.

- `Start`, `RestoreWork`/`NothingToRestore`/`RestoreFails`, `OpenConversation`/
  `StartAfresh` come before the agent; `Worked`, `SessionEnds`,
  `SessionTimesOut`, `WillNotOpen` are its session.
- `TestsPass`, `FixTests`, `StaysRed`, `TestsTimeOut` are the observe loop;
  `Push`, `PushUnread`, `PushRefused`, `PushTimesOut` the push.
- `NotKeeping`, `DropWork`, `KeepCommits`, `KeepWork`, `KeepFails`,
  `KeepConversation`, `DropConversation` are what is left behind, a file at a
  time. `Stop` ends the process between any two of them. `save_wip` commits the
  carrier of the edits in the copy itself (`CommitEdits`); the reset of the next
  `Start` takes it off the branch again.
- The branch is inspected by git commands that may fail. Before a push that
  reads as nothing to push (`FoundNothing`, `role_runner.py:284`), so a success
  is kept whose commits are in the copy alone; `unseen` remembers it. A command
  that fails on a branch with nothing new may read as a branch GitHub does not
  have, and so as something to push (`FoundAhead`).

## 3. What the runs check

Run one with `tlc -workers 2 -config <cfg> <module>`. Deadlock is checked in
the queue run; in the others the system may stop, because runs, comments and
passes of the janitors are bounded and an issue may be finished. Where a type
invariant is proved (section 5) the runs do not repeat it.

| Run | Instance | What it shows |
|---|---|---|
| `queue` | 3 deliveries, 2 of one issue, 2 slots, batches of 2, one stop, 2 failing statements, fair | slots add up (`SlotsConserved`), rows at processing have an owner, or the loop never began and nothing is at work (`ProcessingIsOwned`), once per process (`AtMostOncePerProcess`), one of an issue at a time (`OneAtATimePerIssue`), in order (`InOrderPerIssue`), implements `Inbox` (`KeepsPromise`), every accepted delivery is stamped (`AcceptedIsStamped`) |
| `environments_copies` | two merges into one epic and a run without a shared copy, 2 slots, one issue closes, one sweep, one death | `OneRunPerEnvironment`, `OneReleasePerTarget`, the report is true but for entries left by a run whose `on_wait` raised (`ReportIsTrue`), a copy in use is taken away only where its `meta.json` could not be read (`OnlyTheUnreadableIsTakenAway`) |
| `environments_train` | releases of tasks in each other's repo and an epic's own, 1 slot, one death, fair | nobody holds two staging turns (`OneStagingTurnEach`), `EveryRunEnds` |
| `recovery_build` | a task at `ready`, one comment, one stop, one failing call (a route or a ledger write among them), 8 runs, reads of 3 runs, fair | `RetriesAreCapped`, `RestartsFindWork`, `UnfinishedIsAnswered`, `StaleMarkerGoes` |
| `recovery_expedited` | an expedited task that the epic's thread may start too, one call that raises, 2 runs, fair | a broken chain is taken up again (`BrokenChainResumes`) unless its one restart was lost (`RestartLost`) |
| `epic_gates` | one epic, three acts of people who may and people who may not, labels put on by both, one fault, a repo with a Test Planner, fair | `NoStageBeforeItsGate`, `ApprovalIsActedOn`, `ExpeditedAdvances` |
| `release_gate` | two issues, one parked before the milestone, one tracker, two acts, one change of milestone, one fault, fair | `NothingBeforeTheGate`, `OneReceipt`, `ReceiptIsComplete`, `ApprovedIsDispatched`, `AddedEntersIntake` |
| `system_tests` | one case, one task, one report, every policy, three events, fair | `ClosedCaseIsSettled`, `ReportedBugHoldsGS`, `RetestMeansFixed`, `EpicCompletes` |
| `promotion` | two repos, an epic across both and one riding along whose number is found in the other's, two pull requests, two faults, fair | `ShippedIsMerged`, `ToldOnce`, `TasksShipToo`, `MergedEpicShips` |
| `sessions` | two branches, two pieces of work, one push by someone else, one resume, conversations of two rounds, one fault, fair | `UnfinishedWorkComesBack`, `SuccessIsDelivered`, `CarrierStaysHome`, `ConversationsStartOver`, `RunEnds` |

Two more runs expect a violation; section 3.1 has them.

Why the bounds are enough:

- *Queue.* Two deliveries of one issue and one of another, over two slots and
  batches of two, put one at work, one behind the lock and one in another batch.
  The issue number comes once from a webhook and once from a Console dispatch,
  which name it in different fields. One stop splits any history in two; two
  failing statements make a stamp fail and then its replacement fail as well.
  `DeliveryQueueOrder.cfg` has four deliveries, three of one issue, and passes.
- *Environments.* Two runs compete for one copy beside a third that has its own
  and a slot for each. The train's instance is the smallest in which two releases
  want each other's staging; its runs compete for the only slot too. Neither instance deletes the copy of a task because its epic closed
  (`EpicOf`); the theorems cover that.
- *Recovery.* Three failures in a row reach the cap of two retries and the
  notice; with a stop and a comment that is at most eight runs. `MaxInbox`
  delays what the sweep queues and drops nothing. One failing call is enough for
  each half-done step, because the code has no retry around a call.
  `RunRecoveryPlanning.cfg` follows two roles, with one limit or empty run, and
  passes.
- *Gates.* Three acts are an approval, an expedite and a reply, or the same
  approval three times; a label by the wrong hand, its revert and a reply that
  saw it; two gates are passed in one history. One fault (a call that raises, a
  run that fails, or a stop) lands between any two calls.
- *Release.* Two issues are the fewest that can be half released, and one of
  them must have been filed beforehand. Two acts are a plan and an approval.
- *Tests.* Three events are a failed verdict, its fix and a stop; a report, its
  close and an approval. The theorems lift the bound to any number of cases,
  bugs and events.
- *Promotion.* Two repos whose last merges race each other, with one pull
  request each; a second epic makes a thread ship two, and its number begins the
  other's, so that each kind of mistaken promotion occurs. Two faults are a
  listing that fails and a stop that replays the delivery. A promotion that is
  closed and opened again needs a third pull request: `PromotionClosed.cfg` and
  the theorems have it.
- *Sessions.* Two pieces tell commits from edits and what was kept from what is
  new; three runs exhaust the two rounds of a conversation; a second branch is
  what HEAD may be left on.

`RetriesAreCapped` counts the failures of the newest role since it last
succeeded against the runs of that series that somebody else than the sweep
started. The sweep counts in its one read of `ReadLimit` runs, so a series longer
than that is counted from the middle, and the bound is `MAX_RETRIES` for each
read it would take to see all of it (`ReadsOf`): with the code's 20 and nothing
else than failures in the series, once. It allows one retry more per stop of the process (a run that has ended
but whose delivery is not yet stamped is run again) and one more for each run
before the series that was given a restart which has not been started yet: such
a restart is routed only when the issue is back where its role starts, and then
belongs to the new series. No run of `PROJECT.json` is large enough for that
last case; it came up when the theorem of section 5 was looked for, and
simulations with two successes per role show it.

### 3.1 Where the documents say more than the code does

Two runs of `PROJECT.json` expect a violation and are its findings:

| Run | Refuted | What happens |
|---|---|---|
| `tests_failed_refused` | "`Test Failed` -> `factory:test-failed`" (`FACTORY.md:581`) | the case names its code task in a `Blocked by` line, the router takes that for a fix already filed, and files none (`router.py:1690`) |
| `tests_retest_lost` | "when that task reaches its assembled state" the Dispatcher asks for a re-test (`FACTORY.md:1126`) | the fix of a bug raised at gate GS lands without a run of the Dispatcher (`graph.py:312`, by `re_dispatchable`, `router.py:1003`); the gate stays held |

The configurations below are kept to be run by hand; each is refuted.

| Configuration | Refuted | What happens |
|---|---|---|
| `BuildEnvironmentsCopyInUse` | "A copy in use is skipped, never waited on" (`issue_workspaces.py:256`) | the sweep reads `meta.json` between truncation and writing, takes it for `{}`, locks a lock of its own and deletes the copy under the run |
| `BuildEnvironmentsStaging` | "Never swept", of staging (`issue_workspaces.py:35`) | as above, for the staging home |
| `BuildEnvironmentsOrder` | "first come first served" (`issue_workspaces.py:171`) | a run that finds the lock free passes those queued for it |
| `RunRecoverySweptTwice` | "a double-detection is harmless" (`orchestrator/README.md:285`) | two passes queue the same missed step with two guids; the second is routed by its stale payload and starts the role again |
| `RunRecoveryNoOps` | "exit 0 but nothing visible happened: fail it" (`graph.py:637`) | `no_op` is not counted as a failure, so an expedited role without effect is started every twenty minutes for ever |
| `RunRecoveryGivesUp` | "hold the issue at factory:blocked until someone answers" (`reconcile.py:220`) | the comment is posted, the label call fails, and the comment's mark keeps every later pass from trying again |
| `RunRecoveryApprovedTwice` | "every node re-reads GitHub before acting" (`graph.py`) | two approvals wait in the queue; the second starts the implementer again after the first has moved the task on |
| `RunRecoveryFanOut` | "a chained run can never double up on a live one" | the epic's fan-out and the task's own delivery both find no marker and both start |
| `RunRecoveryMarker` | the marker says "a factory agent run is live on this issue right now" (`FACTORY.md:594`) | the sweep, or another thread's end, takes off the marker of a live run |
| `RunRecoveryLostRestart` | "the factory starts the role again on its own" (`main.py:116`) | the restart's delivery fails once; its guid is spent, so no pass queues another for that run |
| `EpicGatesTwoStates` | "exactly one `factory:*` state label" (`FACTORY.md:551`) | the App's own `spec-approved` comes back as an event and starts the planner on an epic that has moved on |
| `EpicGatesUnreverted` | applying expedite "is authorised against the expedite approvers" (`FACTORY.md`, 4a) | the chain of a run reads the label before the event that takes it off |
| `SystemTestsSkip`, with `CloseCompletes` in place of its property | a close is "the other way an epic's last hold comes off, so it re-dispatches" (`router.py:2096`) | the last hold is a case, closed by hand or withdrawn by the Test Planner; only tasks and bugs are re-dispatched for |
| `EpicGatesOverlooked` | "the map is read the same way" whenever the marker is applied | put on during a run that fails or stands down, or beside a label that is reverted, it is read by nobody |
| `ReleaseGateSweep` | an approved release is dispatched, also where somebody is listed for the gate | the sweep signs its event as nobody on the list, so the router reverts the approval |
| `ReleaseGateTrackers` | "a tracker issue is opened if the milestone has none" | the milestone's event and an issue's open one each |
| `ReleaseGateInFlight` | "removing an issue from a milestone parks it only if it has not passed intake" | judged by the payload, after the issue has moved on |
| `ReleaseGateStop` | "every issue in that milestone is moved to intake and its Intake Analyst runs" | a stop between the receipt and the runs; nothing starts them later |
| `SystemTestsMatrix` | "when the last case is passed or skipped ... posts the matrix once more" | nobody asks for the run that would |
| `SystemTestsSkip` | Skip tests "re-runs the Dispatcher" | replayed after a stop it finds no open case and runs nothing |
| `PromotionClosed` | an epic counts as shipped "when the last promotion PR is merged" | one closed unmerged is not waited for |
| `PromotionStop` | "on the last merge, `factory:deployed` (epic and tasks)" | a stop while the labels move; the replay finds the epic no longer at `in-staging` |
| `RoleSessionDocs` (with `-continue`) | five statements of the session's helpers and the wiki | a restore whose last command fails does not start from GitHub; work off the branch is not kept; a stop inside `save_wip` loses the old bundle; a conversation that will not open may be kept; edits are tested and not pushed |

Some things met on the way are exceptions in the properties rather than
configurations, each by a history variable that only that path sets: a success
kept after a failed inspection (`unseen`), an epic that took another's promotion
for its own (`misread`), a notice repeated because the comments could not be read
(`unread`), an entry left in a queue (`strays`), a restart that was dropped
(`dropped`), an issue moved by its epic's thread (`overtaken`), a gate passed
before a revert (`slipped`). A label put on by hand without taking the ready label off
(`Tidy = {FALSE}`) lets a later Approved at G2 be taken for G1. A repo that
cannot be listed at the last merge leaves an epic unshipped (`MergedEpicShips`
excepts errors).

## 4. Fairness

- The operating system and the event loop run what can run: weak fairness on
  the steps of coroutines, threads and the sweep.
- A role run ends: `role_timeout_seconds` bounds the session and the processor
  has no loop without that bound (`ProcessorEnds`, `Step`, `RunStep`).
- `AcquireSlot` has strong fairness: asyncio's semaphore is first in, first
  out, so a slot that is free again and again reaches every waiter. The model
  does not keep that queue.
- `StartWorker` is fair because the container is restarted when it exits
  (`orchestrator/docker-compose.yml:34`, `restart: unless-stopped`).
- `TimePasses` has strong fairness: it is disabled only between two calls of a
  pass, and a pass is much shorter than the reconciler's interval
  (`main.py:168-195`).
- `EpicGates`, `ReleaseGate`, `SystemTests`, `Promotion` and `RoleSession` ask
  for weak fairness of the worker: of one delivery or sweep going on in the
  first two (which one is left open), of each thread in the others. In
  `RoleSession` the processes a run waits for are killed at its deadline.
- Nothing is assumed of people, of failures, of stops, or of a janitor being
  started. In `BuildEnvironments` weak fairness is enough for the locks in the
  instance checked, where each run asks for a lock finitely often.

Where the code really may stop working the liveness properties say so: a worker
whose loop died, a stamp that was lost, a reconciler whose thread died. Each
lasts until the next restart.

## 5. What is proved

All theorems hold for every value of the constants under the assumptions each
module names (`QueueAssumption`, `EnvironmentsAssumption`, `NoneIsNoEnvironment`,
`RecoveryAssumption`, `EpicGatesAssumption`, `ReleaseGateAssumption`,
`TestsAssumption`, `PromotionAssumption`, `RoleSessionAssumption`). They ask that sets are finite
where they are counted, that bounds are natural numbers, that there is at least
one slot, one epic and one repo a pull request ships to, and that stand-ins such
as "no lock" are not what they stand in for. TLC evaluates them in every run.
No theorem has a further hypothesis.

An invariant is seldom inductive as the runs check it. What follows says which
facts had to be added and why.

**`DeliveryQueueProofs`** proves the inductive invariant `QueueInv`: `TypeOK`,
`SlotsConserved`, `OneAtATimePerIssue` and `LockTableIsCounted`, with two parts
they need. `Owned`: only a row at `processing` has a coroutine. `OneLock`: a
coroutine that may still enter was given the lock that is in the table *now*.
Exclusion alone is not inductive, because the table forgets locks; that a lock
is forgotten only when nobody is counted on it is what `LockTableIsCounted`
adds, and it needs the cardinalities of the sets of coroutines per issue.
A loop that never began has handed out no ticket, which tells it from one that
died later: the rows at `processing` it leaves are an earlier process's.
Theorems: `QueueTypeOK`, `QueueSerializesAnIssue`, `QueueConservesSlots`,
`QueueCountsItsLocks`, and from `Owned` the action property
`QueueStampsAreFinal`.

The second half of the module builds on it. `OrderInv` adds that places are
distinct and handed out in order (`ArrivalsOrdered`), that tickets are handed
out to this process's coroutines one after another (`TicketsCounted`), that what
is pending arrived later than what its issue has at work (`PendingIsLater`), and
that an issue's coroutines line up in order of arrival (`LineIsInOrder`). From
these follow `QueueKeepsOrder`, `QueueOwnsWhatItClaims` and `QueueStartsOnce`.
With both invariants each step of the queue is a step of `Inbox` or a stutter,
which is `QueueKeepsPromise`: the queue implements its abstract specification.

**`BuildEnvironmentsProofs`** proves `EnvInv`: `TypeOK`, `SlotsConserved`, where
each program counter may be (`PlaceOK`), and that a run inside an environment
holds its lock (`LocksAreHeld`). Lemmas on `TurnsOf` say which turns a run
takes and that a release at work holds the turn of the branch it lands on.
Theorems: `EnvironmentsTypeOK`, `EnvironmentsConserveSlots`,
`EnvironmentsExclude`, `OneStagingTurn`, `OneReleaseEach`.

Two invariants build on `EnvInv`. `ReportInv` gives `TheReportIsTrue`: holders
and queues are kept beside the lock, so for a few steps they disagree with it. A
run that has left the report still holds its lock (`GivesBack`); apart from that
who is shown is inside (`HoldersAreInside`) and who is inside is shown
(`InsideIsShown`), and a run stands in one line, once (`LineIsTrue`). That it
stands there once matters because leaving the line takes away its first entry
only. A run whose `on_wait` raised is on its way out or over (`StraysAreGone`),
so what it left behind is never taken for a run that waits. `JanitorInv` gives `OnlyTheUnreadableGoes`: the sweep keeps staging because
it judges what it read, the discard never lists staging because staging names no
epic (`StagingHasNoEpic`). For a copy in use `EnvInv` suffices: a janitor that
could read the name holds the lock of that name while it deletes.

**`RunRecoveryProofs`** proves `RecoveryTypeOK`, with the length of what the
sweep has read and the delivery an invocation works on as strengthening
(`TypeInv`), and `RestartsRepeatNothing`: a restart starts its role only where
the role starts, unless the epic's thread moved the issue since the restart was
routed. Its invariant `FindInv` says that a queued restart expects a state its
role starts from (`RestartsExpectAStart`), and that a restart that has been
routed finds the issue there until its row is opened, or was overtaken
(`RoutedRestartIsAtAStart`). It holds for any number of moves of that thread.

`RetriesAreBounded` is `RetriesAreCapped` for every bound. It is a counting
argument, with `CapInv` for its invariant. The guid of a restart names the run it
was queued for, so per role the restarts that were started and those that wait
never outnumber the runs whose guid is recorded and that may have been given one,
plus one for each stop (`Balanced`). A failed run may have been given one only if
no more than `MaxRetries` failures were counted with it (`Credit`), so among
`ReadLimit` runs in a row a series has at most that many such runs: the newest of
them counted all the others (`FewFailuresAreCredited`). The credit must be of the rows as they are and not as
the sweep saw them: what it read is still true (`WhatWasReadIsTrue`), and stays so
because no row before a recorded one is open (`SpentIsOver`), a thread writes only
the open row it holds (`RowsAreHeld`), and what a thread runs as a restart is the
delivery at the head of the queue (`RoutedIsTheHead`).
`CountingTheSeries` adds it up.

**`EpicGatesProofs`** proves `GateTypes` and `NoStageOutOfTurn`, that no stage
starts before its gate was opened. The stage is started many steps after the
approval was written, so the invariant says what each carrier of that approval
may still ask for: a gate that is being opened was approved or waived
(`OpeningIsApproved`), the labels on the epic and the stages that are on tell the
truth about the gates (`EpicIsTrue`), and what any waiting delivery may do by its
payload, however old, has been approved (`InboxIsBacked`). Whoever puts labels on
by hand: a label of somebody who may not is known for what it is until its event
takes it off, and a gate a reply or a chain passed by it meanwhile is in
`slipped`. `EpicGatesUnreverted` refutes the property without that exception.

**`ReleaseGateProofs`** proves `TypesHold`, `TheGateHolds` (no intake before gate
G0), `DispatchedOnce` (one receipt per tracker) and `ReceiptsAreTrue` (all of the
listing has entered intake when the receipt is posted). `Gate` says that whoever
is heading for intake has seen an approval. `Dispatch` says that a thread that
moves issues has seen no receipt, and that what its listing began with has been
moved or is still on its list.

**`RoleSessionProofs`** proves `SessionTypes`, and from one invariant `IInv` the
four safety properties `WorkComesBack`, `SuccessesAreDelivered`,
`CarriersStayHome`, `ConversationsAreBounded`. The work a run left is at every
moment in the bundle, or there was none that GitHub lacks, or GitHub's branch has
moved past it (`WorkIsSomewhere`); what the copy believes of GitHub was true once
(`SeenIsOnGitHub`); only an implementer's run replaces bundle and conversation
(`OnlyKeepersKeep`); the carrier commit is nowhere a push could take it from
(`CarrierIsNowhere`); the commits of a run about to report a success are on GitHub
(`Delivered`); a run that continues a conversation knows its count (`Knows`), and
the count is right (`Counted`).

**`PromotionProofs`** proves `PromotionTypes`, `NoticesOnce`,
`ShipsWhatMerged` and `TasksShipWithTheirEpic`. `ShipInv` is the argument for the
second-last: a thread asks repo after repo, so its answers are of different
moments, and the answer "nothing open" must stay true until it ships. It does,
because a thread decides on epics of its own merge only (`WorksOnItsOwn`), people
merge no promotion before they have seen all of an epic's (`MergedIsListed`), and
so the repos a thread has behind it are done with for good (`FoundIsTrue`).
`TaskInv` says that only an epic that was on staging ships (`StagedFirst`), and
that what is half moved has a thread that will finish it (`HalfDoneIsAtWork`).

**`SystemTestsProofs`** proves `TestTypes`, `ClosedCasesAreSettled`,
`RetestsAreOfRepairs` and `ReportedBugsHoldGS`. `CaseInv`: a thread carries out
what the payload in its hand asked (`AsAnswered`), and closing is the last call
of a verdict (`ClosesLast`). `RetestInv`: a bug at re-test has all its fixes landed
(`Repaired`) or a failed re-test is just being taken back (`TakingBack`); to keep
that, a bug still being raised must have no fix and no re-test label, not even in
a payload that waits (`NoRetestYet`). `GateInv`: what people see as an open bug,
now or in a waiting payload, is one that `open_bugs` finds (`SeenIsKnown`), an
approval that is being carried out found nothing open (`ApprovalIsClear`), and so
what was reported is over when the epic goes out (`ReportedAreOver`). A listing
that fails would read as nothing open; it counts as a failed call. The last two
theorems are about histories without a failed call, as their properties say.

**Only model-checked.** Liveness under fairness is out of the prover's reach:
`AcceptedIsStamped`, `EveryRunEnds`, `UnfinishedIsAnswered`, `StaleMarkerGoes`,
`BrokenChainResumes`, `ApprovalIsActedOn`, `ExpeditedAdvances`,
`ApprovedIsDispatched`, `AddedEntersIntake`, `EpicCompletes`, `MergedEpicShips`,
`RunEnds`. Every safety property and every action property that a passing run
checks is a theorem.

## 6. What is not modelled

- GitHub itself beyond labels, comments and pull requests as the code reads and
  writes them; git beyond what a command leaves behind and whether it fails.
- The text of comments, prompts, logs, the runs API, server-sent events,
  attachments, the development app.
- Authentication and secrets; the token cache with its margin and its retry on
  401 (`github_app.py`, `token_refresh.py`).
- Master copies (`repo_cache.py`), the resolution of models (`models.py`), the
  questions feature (`ask.py`), the claim and the settings.
- The GitHub Actions engine: generated steps around the same contract, run by
  GitHub.
- Of the router: revisions of a document (`Review done`), the fast lane, the repo
  profile and the checklists.
- Of the graph: the checkout of several repos for one run (`graph.py:193`).
- Of a run: the pull request a push opens, branches that were deleted or
  rewritten on GitHub.
- `received_at` is read before its row is committed (`ledger.py:88`), and the
  reconciler records from a thread of its own. The model records in one step.
- `reconcile.py:274` names a restart by its run; the model's `spent` is that set
  of runs, without the table's other guids.

## 7. Plan

Theorems left: no safety property of a passing run.

Modules left, in this order: `Tokens`, the cache, its margin, the retry on 401
and the Console's refresh; `Ask`, the turn table of the questions feature;
`ModelResolution`, a pure operator against a reference definition. A further run
worth having: `DeliveryQueue` with `received_at` and the commit as two steps.
