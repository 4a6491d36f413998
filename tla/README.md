# Formal specification of dataworks-agent

This directory holds TLA+ models of the core of dataworks-agent, the TLC
configurations that check them on small instances, and TLAPS proofs of the
properties that matter most for every instance. The repository is the
reference: each definition that models code is listed with its file and lines
in `PROJECT.json` under `map`.

## 1. Inventory

dataworks-agent is a multi-user web agent for DataWorks / MaxCompute. It is a
fork of opencode: a **control plane** authenticates users and supervises one
**worker** process per user; a worker runs the agent **core** (sessions, event
log, tools, providers); DataWorks queries go through a resident Python
**sidecar**.

```
 browser ──HTTP──▶ dataworks-control ──spawn/proxy──▶ worker (packages/core, plugin)
                     │  auth, rate limit                 │  SessionV2.prompt ─▶ SessionInput.admit
                     │  write tickets                    │          │ wake             │ publish
                     │  worker supervisor                │  RunCoordinator ─▶ Runner ─▶ EventV2 ─▶ SQLite
                     │  LLM gateway                      │                       │         │ wake
                     ▼                                   │                   provider    durable streams
                  ODPS sidecar (JSON lines, Python)      ▼
```

### 1.1 packages/core: the agent runtime (TypeScript, Effect, SQLite)

| Component | State it keeps | Operations | What makes it correct |
|---|---|---|---|
| Event log, `event.ts` | `event_sequence` (latest sequence, owner) and `event` rows per aggregate; in memory: projectors, listeners, wake sets of durable streams | publish, replay, replayAll, claim, remove, durable (replay and tail), listen, project | one gapless sequence per aggregate; projections commit with their event; a replay neither duplicates, diverges nor crosses an owner fence; a stream misses and repeats nothing |
| Session inbox, `session/input.ts` | `session_input` rows (admitted and promoted sequence), user rows of `session_message` | admit, promoteSteers, promoteNextQueued, the PromptAdmitted and Prompted projectors, the revert projector | a prompt is admitted once whatever is retried, visible once, in order; a queued prompt waits |
| Run coordinator, `session/run-coordinator.ts` | Map of Entry per Session, one owner fiber each | run, wake, interrupt, settle | one drain per Session, no lost wake, no orphaned waiter |
| Runner, `session/runner/llm.ts`, `publish-llm-event.ts` | promotion mode, step count, per-turn tool map, tool fibers | run, runTurn, compaction retry, tool settlement, failInterruptedTools | every tool call is settled exactly once, on success, failure, decline, interruption and restart |
| Context epochs, `session/context-epoch.ts`, `system-context/` | `session_context_epoch` row (baseline, snapshot, baseline sequence, replacement sequence) | initialize, prepare, reset, replace, advance | the snapshot advances exactly with the durable system message; a compaction or a move renders a fresh baseline |
| Compaction and history, `session/compaction.ts`, `history.ts` | compaction messages | compactIfNeeded, compactAfterOverflow, load | at most one overflow retry; a failed attempt keeps the old boundary |
| Revert, `session/revert.ts` | `session.revert` | stage, clear, commit | a committed revert removes exactly the messages and inputs after the boundary |
| Session API, `session.ts`, `store.ts`, `projector.ts`, `message-updater.ts` | `session`, `session_message` rows | create, prompt, switchAgent, switchModel, resume, interrupt, revert, move | create and prompt are idempotent under retry |
| Permissions, `permission.ts`; questions, `question.ts` | pending requests (Deferreds), saved rules | ask, assert, reply | nobody waits unseen; nothing passes without a reply or an approval; a rejection reaches all of its Session |
| Background jobs, `background-job.ts` | jobs, their fibers and scopes | start, extend, wait, promote, cancel | a job settles once, waiters see it |
| Keyed mutex, `effect/keyed-mutex.ts` | semaphore and user count per key | withLock | mutual exclusion while entries come and go, no entry without a user |
| File mutation, `file-mutation.ts`, and `tool/edit.ts`, `write.ts`, `apply-patch.ts` | what a call has read and applied; the locks of its targets | create, write, writeIfUnchanged, remove | of two changes made from one content the second is refused |
| Move session, `control-plane/move-session.ts` | working trees | moveSession | changes are applied before the Session moves |
| PTY, ripgrep, git, snapshot, config, plugins, providers, credentials | process and file handles | I/O | outside the models (I/O, formatting, third-party protocols) |

### 1.2 packages/dataworks-control: the control plane

| Component | State it keeps | Operations | What makes it correct |
|---|---|---|---|
| Write tickets, `write-ticket/service.ts` | ticket rows | issue, consume | a ticket authorises one call, once, before its expiry |
| Worker supervisor, `worker/supervisor.ts` | a Map of handles | acquire, dispose, dispose all | one worker per user |
| ODPS sidecar, `odps/sidecar.ts` and the process `sidecars/pyodps` | child handle, pending requests, write queue, restart timer; slots, threads and cancel events | start, stop, query, health, abort, exit and error handlers; the main loop, its query threads and watchers | no request is forgotten across restarts; a cancel reaches its own query; stop is final |
| Sessions and login rate limit, `auth/session.ts` | session rows, failure windows | login, authenticate, logout | the attempt limit holds |
| LLM gateway, secret store, knowledge index, skills, audit, data connections, proxies, MCP client | rows, caches, files | request handlers | mostly I/O and storage; see the plan |

### 1.3 The rest of the repository

`packages/opencode` (the legacy runtime, server and CLI), `packages/app`, `ui`,
`session-ui`, `tui`, `desktop`, `web`, `console`, `docs`, `sdk*`, `client`,
`protocol`, `schema`, `llm`, `codemode`, `http-recorder`, `effect-*`, `stats`,
`enterprise`, `dataworks_agent/` (an earlier Python backend), `frontend/`,
`scripts/`, `infra/` and `artifacts/` are not modelled: user interfaces,
generated clients, wire schemas, provider adapters, deployment, and code the
product no longer starts.

## 2. Plan

Modules in the order they were written. The first five are the session core:
everything a prompt goes through between its admission and the settlement of
the turn that answers it. The next three are what a turn's tools meet: the
query process, the user's permission, the files.

| # | Module | Models | State |
|---|---|---|---|
| 1 | `RunCoordinator` | `session/run-coordinator.ts` | checked, proved |
| 2 | `EventLog`, refining `AppendOnlyLog` | `event.ts` | checked, proved (with the refinement) |
| 3 | `SessionInbox` | `session/input.ts` and its projectors | checked, proved |
| 4 | `SessionRun`, composed with `RunCoordinator` by `INSTANCE` | the drain loop of `session/runner/llm.ts` | checked, proved (with the refinement of the coordinator) |
| 5 | `ProviderTurn` | `runTurnAttempt`, `publish-llm-event.ts`, the tool and step projections | checked, proved |
| 6 | `OdpsSidecar`, extending `SidecarProcess` | `odps/sidecar.ts` and the Python process | checked, proved |
| 7 | `Permission` | `permission.ts`, `permission/saved.ts` | checked, proved |
| 8 | `FileMutation`, extending `KeyedMutex`, refining `KeyedLock` | `effect/keyed-mutex.ts`, `file-mutation.ts`, the three tools over them | checked, proved (with the refinement) |

| Run | Asks |
|---|---|
| `eventlog_writers` | sequences, unique ids, the owner fence, listeners |
| `eventlog_streams` | durable streams, and that the log is an append-only log |
| `coordinator` | one drain, no orphan, no work after an interrupt, liveness |
| `coordinator_resume_during_stop` | violated: section 5 |
| `session_inbox` | admission once, promotion in order, truthful receipts |
| `session_run` | no prompt stranded or swallowed, steps of the coordinator only, liveness of wakes and drains |
| `provider_turn` | every tool call is settled once, broken steps are closed |
| `sidecar` | no request forgotten, restarts, cancels, stop |
| `sidecar_failed_start` | violated: section 5 |
| `file_mutation` | no change lost, a lock per key, calls end |
| `file_mutation_locations` | violated: section 5 |
| `permission` | nobody waits unseen, grants have a source, both cascades |

What would come next: the drain and the turn as one composition, in which
`SessionRun`'s turn is `ProviderTurn`'s; `SessionInbox` as the inbox of
`SessionRun`; a fault model of the database file itself.

## 3. The modules

Each module with a run has an `MC` module that instantiates it for TLC (it adds
symmetry sets and the instance's functions only) and a configuration per
question. A definition whose comment
starts with "Mutant" is a plausible bug of the definition below it: with it in
place of that definition the property that `PROJECT.json` names must fail. No
specification uses one.

### 3.1 RunCoordinator

The Map `active` of Entries, each with an owner fiber and the flags
`pendingWake` and `stopping`. JavaScript is single threaded, so a synchronous
block is one action; every `await` is a place where the others run. `Run`,
`Wake`, `Interrupt` are the calls; `Finish`, `Fail`, `CleanedUp` are `settle`
after the three ways a drain exits; `RunAgain` is the second entry into `run`
of a caller that met a stopping Entry; `Yielded` is the successor's
`yieldNow`. The drain itself is the environment: it looks for work, takes it,
or fails at any point. An Entry that settled is used again, so identities do
not grow.

* `coordinator` (1 Session, 3 callers, 4 Entries): `OneDrainPerKey`,
  `NoOrphanWaiter`, `InterruptStaysQuiet`, and under fairness that woken work
  is looked at (`WokenWorkIsLookedAt`) and that interrupts and runs return
  (`CallsReturn`). Four Entries are more than are alive at a time. Two
  Sessions share nothing but the Map; the theorems hold for any number of them.
* Proved, for any number of Sessions, callers and Entries: the type invariant,
  the three safety properties and that no wake is lost. None of them is
  inductive alone. `IInv` adds
  that a live fiber belongs to the active Entry of its key (`LiveIsActive`),
  that the active Entry has a live fiber (`ActiveIsLive`), that callers hold an
  Entry exactly while they wait and then the active one
  (`WaitersHoldActive`), and that an Entry without a fiber has clean flags
  (`FreshFlags`). `settle` needs all of them at once: it retires an Entry,
  starts its successor and releases waiters in one block.

### 3.2 EventLog and AppendOnlyLog

`latest` and `owner` are the row of `event_sequence`, `events` the rows of
`event`. A publish or replay is three steps, as in the code: the transaction,
the wake of the aggregate's durable streams, the notification of listeners;
an interrupt may fall before the notification. A durable stream registers its
wake signal, reads history, waits, and reads again. Event data is the event's
id: the divergence check of a replay compares ids.

* `eventlog_writers` (2 aggregates, 2 ids, 2 owners, 1 writer, no stream):
  `GaplessLog`, `OwnedTail`, `NeverRetold`. Two ids in two aggregates give
  duplicates, divergence and ids taken elsewhere; two owners give every fence.
* `eventlog_streams` (1 aggregate, 2 ids, 1 writer, 1 stream): `StreamComplete`,
  that the log implements `AppendOnlyLog` (`RefinesLog`), and under fairness
  that its promise of delivery holds as well (`KeepsPromise`). One writer
  suffices for the checker, since the theorems cover any number of writers and
  streams.
* `MaxSeq` (2 rows per log) and `MaxEra` (a log is removed once) are bounds on
  histories, not on the code; the theorems hold for all of them.
* Proved: all of these but `KeepsPromise`, and that a stream misses no wake and
  repeats no row. `StreamComplete` needs `CursorInv`: what a stream
  delivered is not beyond its cursor, and while the log it opened is still
  there the cursor is where the caller put it or at a row of the log.
  `NeverRetold` needs `ToldInv`: the row a busy fiber holds is one nobody was
  told of, and no other fiber holds it.

### 3.3 SessionInbox

`input` is `session_input`, `message` is `session_message`, both by id. A
client of `prompt` looks for its id, publishes `PromptAdmitted`, and after a
defect looks again (`Prompt`, `PublishAdmitted`, `Recover`). A promoter selects
rows and later publishes them one by one from what it selected, so a stale
selection meets whatever happened since: a promotion by somebody else, a revert
that deleted the row, an id that something else has. `CommitRevert` is the
revert's projection.

* `session_inbox` (1 Session, 2 ids, 2 contents of either delivery, 2 clients,
  2 promoters, 6 events): `PromotedIffVisible`, `InAdmissionOrder`,
  `ReceiptsHold`, `RefusalsJustified`. Two clients are the same call repeated,
  or racing another call for the same id. Six events are two admissions, two
  promotions, a revert and an admission after it. Two promoters overlap only
  across processes, or when a drain was interrupted inside a transaction: the
  coordinator otherwise excludes it, and the properties do not rely on that.
* Proved, for any number of Sessions: the type invariant and the four properties.
  `PromotedIffVisible` needs that a promoted row's admission is not after its
  promotion (`Behind`), so that a revert's boundary treats both tables alike.
  `InAdmissionOrder` needs that a promoter's selection is downward closed: what
  is pending and was admitted before a selected row is selected too
  (`Selected`), for rows that are in the order they were created in
  (`Admitted`). The two client properties need that whoever lost the race for
  an id finds the reason (`Lost`), unless a revert took it away.

### 3.4 SessionRun

The loop of `run` and `runTurn` in every drain, with the coordinator around it:
`C == INSTANCE RunCoordinator` with the coordinator's `work` and `signalled`
computed from the inbox. Every read of the inbox is a step: the two looks that
start a drain, the cutoff, each promotion, the looks after a turn. `Compact`
and `Overflow` start a turn over; what a turn answers is a choice between a
continuation and an end.

* `session_run` (1 Session, 1 caller, 2 prompts of either delivery, a limit of
  2 steps): `NoPromptStranded`, `NothingSwallowed`, `OneQueuedAtATime`, that the
  coordinator is implemented (`KeepsToCoordinator`), and under fairness
  `WokenIsPromoted` and `DrainsEnd`. Two prompts are a steer and a queued one,
  or two of one kind, so that one arrives between any two looks at the other.
  `DrainsEnd` rests on a configured step limit: without one, a model that
  always calls a tool goes on for ever, by design.
* A process starts with an empty inbox and every prompt fresh. A prompt that an
  earlier process left there is one that is admitted now without a wake.
* Proved, for any number of Sessions, prompts, callers and Entries and any step
  limit: the type invariant, the three safety properties, that drains do not
  overlap, and that the coordinator is implemented. The invariant `SInv` joins
  the facts of the coordinator (`LiveIsActive`, `ActiveIsLive`, `FreshFlags`)
  with those of the drain: an Entry that does not drain has nothing in its
  local state (`AtRest`); a promoted prompt is in the hands of its Session's
  drain, which reaches its request before it looks for anything else
  (`InHand`), so that a drain that exits holds none; the cutoff is one of
  steers (`Steered`), so that what follows a queued prompt into its turn is no
  second one; what is fresh was neither woken for nor promoted (`Known`). That
  nothing is stranded is carried through as it is (`Owed`), Session by Session.
  The lemmas on inboxes say what appending, removing at a place and cutting off
  make of a sequence without duplicates.
* `KeepsToCoordinator` is the refinement (theorem `Coordinates`): with the
  inbox hidden, each step of the prompts, callers and drains is a step of `RunCoordinator` or a stutter. The
  coordinator's own theorems then hold of a Session at work, and two are stated
  so (`NoOrphans`, `InterruptsAreQuiet`). The inbox has to be hidden: a revert,
  or a promotion of one prompt of two, changes `Work` where the coordinator's
  `work` does not change. To the hidden coordinator the inbox is always empty,
  and the end of a drain is a look that finds nothing. That wakes are not lost
  is therefore not taken over from it, but proved anew (`NoneStranded`), for
  looks that are several steps.

### 3.5 ProviderTurn

The sequence `todo` is what the turn's fiber still has to do: the handler of
the stream event under way, then the settlement (`Before`, `After`), which is
the code from the end of the stream to the return written as a list. An event is
published in two steps, `Mark` (the publisher's own flags: `book`, `flags`) and
`Commit` (the projected `tool` and `step`), because in the stream an interrupt
can fall between the two. The publication permit is `Publishing`. Tool fibers
run, break or have a result to deliver; a fiber with a result is not
interruptible. `Crash` keeps `tool`, `step` and `compacted` only, and the next
drain starts with `Recover` (failInterruptedTools). `Compact` is a compaction, by
a turn that is started over: the history is read from it on (`Visible`), by
`Recover` as by everybody.

* `provider_turn` (1 turn of 2 calls, local or hosted, the agent's last step or
  not, and the drains after it): `SettlementIsFinal`, `FinishedWorkIsKept`,
  `NoToolOutlivesItsTurn`, `LeftoversAreFailed`, `RequestsShowNoRunningCall`,
  `BrokenStepIsClosed`, and under fairness `InterruptEndsDrain`, although
  `clear` waits for fibers that wait for the permit. Two calls give one that
  ends while the other is at work, swept or streamed. A turn writes its own
  calls only, so a second turn would repeat the first beside a history that
  does not change; what the next drain finds of the first one is in the run.
* `LeftoversAreFailed` has an exception: a drain goes on with a call whose input
  was begun and that was never made, and with a running call of a last step
  (section 5). When a compaction of that drain hides the turn, the recovery of
  later drains does not see the call, and it stays open. What an interrupt or a crash leaves behind is of the drain's last turn, and no
  compaction comes before the recovery, so it is always failed. Both kinds of
  hidden call are reached in the run.
* `BrokenStepIsClosed` has an exception TLC showed: when the
  interrupt falls into the publication of the provider's own error, between
  the publisher's flag and the event, the step stays open in the projection. It
  says nothing of a stream that ends with a defect, after which the step is open.
  A stream that fails after its step-finish leaves both Step.Failed and
  Step.Ended for one step; no property forbids that.
* Proved, for any number of turns and calls: the type invariant and all safety
  properties.
  `NoToolOutlivesItsTurn` is inductive with the types.
  `SettlementIsFinal` and `FinishedWorkIsKept` need `PInv`, which says of every
  task still in `todo` what must hold for it to be executed (`Plan`: for
  instance, that a call about to be failed is not settled unless its fiber was
  stopped by a task before it), and that the publisher's records and the
  history agree (`Written`, `Uncalled`, `Local`, `Recorded`, `Kept`).
* `RequestsShowNoRunningCall` needs, on top of that, a promise for every running
  call until the turn is closed (`RInv`): while the stream lasts it has a fiber,
  a fork to come, or a result under way (`Streaming`); once it has ended, what
  is left of the settlement sweeps it, waits for its fiber, or is failing it
  (`Settlement`); a fiber that ended has told the records, or those who wait
  (`Ended`); the wait comes last (`Closing`); and earlier turns of the drain are
  through (`Past`). `LeftoversAreFailed` rests on both: a turn belongs to the
  drain that began it (`TurnIsOfTheDrain`), and what a compaction can hide while
  a drain goes on is, by the promise for running calls, pending or of a last
  step (`Hidden`).
* `BrokenStepIsClosed` needs `BInv`: the publisher knows of a step in the history
  that has not failed that it is active or finished (`Flagged`), a stream that
  was interrupted is settled as an interrupt (`Interrupted`), and while a broken
  turn settles, its step is closed or a task that closes it is to come
  (`Concluded`). It holds at any place of the interrupt, which the model has
  between the mark and the commit of each event.
* Not in the model: texts, reasoning, tool progress, snapshots and token counts
  (data that no property is about), and publishes that die.

### 3.6 OdpsSidecar and SidecarProcess

`SidecarProcess` is the Python end: the main loop takes one line at a time
(`ReadQuery`, `ReadCancel`, `ReadHealth`), a query has a thread that clears its
event (`Begin`), answers and releases its slot, and a watcher that lets its time
run out. `OdpsSidecar` is the supervisor: an action is what its event loop runs
between two waits. `call` is where a caller stands, `pending` the map that
routes answers, `queue` and `writer` the loop of `writeLine` with its wait for
drain. The child has a life of its own: it may fail to start, die with lines in
its hands, print rubbish, or stop reading; its end is an event the loop hears of
later. `starting` is the promise of `start`, which callers and the restart
timer share.

* `sidecar` (two of: a query with an abort signal, a query without, a health
  check; one slot): `NobodyForgotten`, `CancelledForAReason`, `StopIsFinal`,
  under fairness `CallsEnd` and `ChildIsReplaced`. Two requests with one slot
  give a refusal at either end, a cancel beside another query, a request that
  arrives while the child is being replaced. `CallsEnd` excepts the two ways in
  which the code does leave a caller waiting: a start that nobody settles
  (section 5) and a writer that waits for the drain of a child that is gone.
* Proved, for any number of requests: the type invariant, the three safety
  properties, and that there is one child at a time, and none after a stop. The
  invariant says that the handle and the child come and go together
  (`HoldsChild`), that who waits is in the map (`Held`), and where its request
  is (`Routed`: a line in a queue, a thread, an answer under way). For the
  cancels it follows the cancel line through the queue, the pipe, the event and
  the answer (`CancelsOwn`, `EventsOwn`, `AnswersOwn`).
* The length of the back-off is left out: the timer fires some day. So are the
  SQL policy, credentials and the truncation of rows.

### 3.7 Permission

`pending` is the map, `deferred` what each request's Deferred was completed
with, `caller` the fiber that asks. A reply is a fiber of its own
(`replier`): it publishes first, and answers later; the cascades of a rejection
(`RejectNext`, `RejectItem`) and of an always-reply (`MatchNext`, `MatchItem`)
publish for each request they answer, so others reply, register and leave in
between. `Dies` is the end of a reply at any of these places: its events are not
durable, so a listener that dies takes `publish` with it, and the queries die
with the database. The loops take the requests of the map in any order, which
allows more than the insertion order of the code. `Forget` is the removal of a
saved approval, `Delete` that of a Session, whose requests stay in the map,
`Close` the layer's finalizer.

* `permission` (4 requests of 2 Sessions on 3 resources, one of them denied, one
  request by `ask`, 2 repliers): `WaiterIsPending`, `GrantHasASource`,
  `RejectionReachesAll`, `CoveredIsMatched`. One request needs the approvals
  that two others save, so two always-replies must see each other's rules; two
  repliers may answer one request. The Session that is deleted is that of this
  request (`DeletedSessions`): the other requests are not covered by approvals
  but those of their own reply.
* The two cascade properties say what is true of replies that may die. A rejected
  Session's request is answered or its reply is still in its cascade, `barred`
  being the history of who rejected next to what; the entries of a reply that
  dies go with it. A covered request is on the way of some always-reply, unless
  its Session is gone, or it was covered before it was registered, or the last
  reply on its way to it died (`excused`, until the next approval is saved).
* Proved, for any number of requests, Sessions and clients: the type invariant
  and the four properties. `GrantHasASource` follows every place a grant passes
  through (`Unblocked`, `GrantsWell`, `Sourced`); the two cascade properties
  need that what is pending has been registered by its caller (`Registered`).
* One Location: what other Locations of a project save is left out, and the
  configured rules do not change. There is no liveness here, since a user owes
  no reply. Questions (`question.ts`) are the same map without rules and
  cascades.

### 3.8 KeyedLock, KeyedMutex and FileMutation

`KeyedMutex` is the Map of entries, each a semaphore and a count: `Find` and
`Make` are the beginning of `withLock`, `Drop` its end. The semaphore is
Effect's and external; its permit goes to anybody who asks or waits, which is
more than any queue allows. `KeyedLock` is what a lock per key is, without
entries. `FileMutation` lets calls of `edit`, `write` and `apply_patch` run over
the mutex: they ask, read without a lock, then make their changes one by one,
each under the lock of its target. The content of a file is the set of changes
it shows, so that a change that disappears is seen to. Another program may
remove a file or put back its first version.

* `file_mutation` (1 Location, 2 files, 2 calls, 2 entries): `NoLostChange`,
  that the mutex is a lock per key (`Implements`), and under fairness that an
  approved call ends (`CallsEnd`). Patches of two changes give a call that
  fails or is interrupted between two locks. Deadlock is not checked: calls
  end.
* Proved in `FileMutationProofs`, the mutex first, for any number of keys,
  callers, files and changes: the types, mutual
  exclusion, that no entry stays without a user, the refinement, and
  `NoLostChange` for calls of one Location (the third divergence of section 5
  shows why this is assumed). Mutual exclusion rests on `Counted`: an entry's
  count is the number of callers that refer to it, so it is dropped only when
  nobody does. `NoLostChange` then needs that who has compared holds the lock
  of its target and nothing else was written since (`Compared`), and that a
  call's remembered content includes what the file showed (`HasSeenAll`).
* A read, a comparison and a write are atomic: a torn write that a reader meets
  is a read that fails. A failing write leaves the file as it was.

## 4. Fairness

Only the runtime is assumed fair: a fiber that can run is run (weak fairness
per fiber), and a Deferred that is completed resumes its waiters. An
interrupted drain ends its cleanup. In `SessionRun` the provider also ends
every stream, which the code leaves to the provider's transport, and a prompt
call that has admitted goes on to wake. In `OdpsSidecar` the event loop delivers
its events, timers fire, a killed process ends, and a process that lives reads
its lines and ends its queries (MaxCompute answers, or the time is up). In
`FileMutation` the steps of a call are fair, for the file system answers.
Calls, wakes, interrupts, reverts, approvals, aborts, crashes, failures,
compactions, deaths of replies, the provider's events and a tool's answer are
never owed; where a property needs that they stop at some point, its formula
says so (`WokenWorkIsLookedAt`, `CallsReturn`, `WokenIsPromoted`,
`DrainsEnd`).

## 5. Where code and documents differ

Each of these has a run that must find its property violated.

* `coordinator_resume_during_stop`: a resume that meets a stopping Entry waits
  for its `done`, which settles with the interruption, and so ends interrupted
  instead of starting an execution of its own, as the test of that name says.
* `sidecar_failed_start`: a child that cannot be spawned raises its error after
  the handle was set, and `start`'s promise is rejected only without a handle:
  it never settles, the restart joins it, and no child is ever spawned again
  ("Spawn errors are handled by scheduleRestart", `odps/sidecar.ts:256`).
* `file_mutation_locations`: every Location has its own locks, so two Sessions
  in two Locations that edit one file compare at the same time, and the second
  write discards the first change (against the comment at
  `file-mutation.ts:70`).

Met while modelling, and taken over into the models as the code has them:

* A revert between the look that starts a drain and the promotion lets a wake
  call the provider with nothing promoted (`runner/llm.ts:389`, against
  `specs/v2/session.md:163`).
* One tool that breaks ends the wait for the others; they are failed while they
  run, and the drain continues (`runner/llm.ts:142`, against "await all started
  settlements", `specs/v2/session.md:210`).
* On a last step, the sweep that refuses a call also settles calls whose input
  is still streamed. Such a call, when made, is projected as running again
  (`runner/llm.ts:245`, `message-updater.ts:271`): `SettlementIsFinal` and
  `RequestsShowNoRunningCall` except the calls of a last step.
* A call whose input was begun and that was never made stays pending while its
  drain goes on (`runner/llm.ts:341`), and so may a call of a last step stay
  running. If that drain compacts the history (`runner/llm.ts:215`), the recovery
  of later drains, which reads the history from the latest compaction on
  (`runner/llm.ts:122`, `history.ts:38`), never fails it: `LeftoversAreFailed`
  excepts it.
* A listener that dies ends a reply in the middle of its cascade
  (`permission.ts:239`, `permission.ts:276`, `event.ts:393`), and the rest of the
  requests wait with no reply under way. The same holds when the query after
  saving dies (`permission.ts:261`): the approval is saved, the requests it covers
  are not answered before the next one. A pending request of a deleted Session is
  passed over (`permission.ts:267`).
* `specs/v2/schema-changelog.md` says that a patch's commits are uninterruptible
  after the preflight; each commit is, but an interrupt falls between two of
  them (`tool/apply-patch.ts:159`). A delete removes whatever is there by then
  (line 175).
* A query whose signal is aborted before the request, or before its thread
  begins, is not cancelled: the thread clears the event it begins with
  (`query.py:122`). A time that was up is reported as `CANCELLED`, since
  `_TimeoutError` is never raised.
* `pending.size` counts cancels and health checks, so a query may be refused as
  busy with a free slot. A line of the child that is no JSON ends every request
  in flight.

## 6. What is proved, what is only checked

The proofs are in eight modules, the ones named `...Proofs`; their 49 results
are listed in `PROJECT.json`. They assume the
named assumptions of the modules only (distinct sentinels, natural bounds,
finite or non-empty sets, the types of constant functions), and `NothingLost`
that there is one Location. Each safety theorem follows the same line: the
invariant is conjoined with the facts it needs, shown in `Init`, shown to
survive each action, and closed by `PTL`. Every safety property, action
property and refinement that a passing run checks is proved.

There are three refinements, and each maps every step to a step or a stutter:
`EventLog` implements `AppendOnlyLog`, `KeyedMutex` implements `KeyedLock`,
`SessionRun` implements `RunCoordinator` with the inbox hidden. The calls of
`FileMutation` use the mutex by its own steps (`UsesMutex`).

Without a run of their own, because a theorem has them for every instance: the
type invariants, `NoMissedWake` and `NeverRedelivers` of the
event log, `NoLostWake` of the coordinator, `OneChild` of the sidecar,
`Exclusive` and `NoEntryLeft` of the mutex.

Only checked by TLC is every liveness property, since liveness under fairness
and ENABLED are beyond the prover: `WokenWorkIsLookedAt` and `CallsReturn` of
the coordinator, `KeepsPromise` of the event log, `WokenIsPromoted` and
`DrainsEnd` of the drain loop, `InterruptEndsDrain` of the provider turn,
`CallsEnd` and `ChildIsReplaced` of the sidecar, `CallsEnd` of the file
mutations. So are the three violations of section 5.

## 7. What is not modelled

`PROJECT.json` lists every component. What is left out, and why:

* Context epochs: what an epoch stores is rendered text, written inside a drain
  that the coordinator serialises. That a preparation dies when a move took the
  epoch away is a way for a drain to end (`ProviderTurn`'s `EndDrain`).
* Compaction and history: when a history is too long, and what the summary says of
  it, is a matter of data and token counts. `SessionRun` has the restarts that a
  compaction causes, `ProviderTurn` what it hides.
* Revert staging: it restores working-tree files through git before it
  publishes Staged (`session/revert.ts:76`); a crash in between leaves files
  that no event tells of. What a committed revert does is in `SessionInbox`.
* Move session: one caller's sequence of git commands around one event
  (`control-plane/move-session.ts:101`): apply, publish, reset the source. A
  failure of the last leaves the changes in both trees.
* Background jobs: a registry that nothing else in `packages/core/src` uses.
* Write tickets: `consume` is one conditional UPDATE in a transaction; there is
  no interleaving to explore. A ticket is good in the millisecond it expires in.
* Worker supervisor: a Map without the protocol its options announce. No crash
  is recorded, the back-off and the idle time are not used, two concurrent
  acquires of one user start two workers of which the Map keeps the second
  (`worker/supervisor.ts:62`), and a dispose during a start does not stop it.
  There is no rule in the code for a model to show kept.
* Login sessions and their limit: single statements on one row, with the
  password check as the only wait between the two that belong together
  (`auth/session.ts`).
* The order in which listeners hear of two writers' rows is not specified
  (`event.ts:406`), and `EventLog` allows any.
* I/O and its formats (PTY, git, snapshots, ripgrep, HTTP servers, proxies,
  provider adapters): no protocol of their own that a small model would show.
* Defects inside a database transaction are rollbacks, which are no step; a
  publish that dies in the middle of a turn's settlement is not modelled.
* The parts of section 1.3.
