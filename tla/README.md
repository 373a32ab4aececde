# A formal model of Moe's Tavern

Moe's Tavern coordinates a fleet of AI coding agents over one board of tasks. Its core is the daemon,
`packages/moe-daemon`: a single Node.js process that owns the JSON files of a project's `.moe/` folder,
offers some fifty MCP tools to the agents (architects, workers, QA, governors) and a WebSocket interface
to the boards of two IDE plugins, and runs a few timers of its own. Around it are the processes that start,
stop and revive it, a proxy between each agent's stdio and the daemon, and the boards' clients.

This directory models who holds which task, what may happen to a task, why handlers may be thought of as
one step at a time, how callers wait for work and for messages, how memory follows the files, and how
daemon, proxy and board client survive each other's absence. TLC checks the models on small instances;
TLAPS proves the properties that hold for every value of the constants, one liveness property excepted.

Paths below are relative to `src/packages/moe-daemon/src/` unless they start with `src/`.

## 1. Inventory

### 1.1 The components

| Component | State it keeps | Operations | Hard behaviour | What makes it correct |
|---|---|---|---|---|
| **Tasks and ownership** (`state/taskStore.ts`, `state/workerStore.ts`, `state/workerLifecycle.ts`, `tools/claimNextTask.ts`, `releaseTask.ts`, ...) | `tasks`, `workers`; a task names its worker, a worker names its task | create, move, delete, archive; claim, resume, take over; release, block, unblock, govern, deregister; purge at start | two pointers written one after the other, either write may fail; every exit of a worker must give its task back | one task per worker; no assignment outside an agent's column; no owner that is gone |
| **Sweeps** (`state/sweeps.ts`) | last-activity times, settings | every 5 min: blocked timeout, review heal, prune | runs between any two calls; silence is not death | nothing is taken from a worker that is just quiet; what a failure left dangling is found |
| **Task lifecycle** (`tools/submitPlan.ts`, `submitPlanCritique.ts`, `startStep.ts` ... `qaReject.ts`, `setTaskStatus.ts`, `util/reopen.ts`, `util/enforcement.ts`) | column, plan and steps, context stamps, counters, the approval mode, SPEED timers | plan, critique, approve, reject, work, complete, QA, reopen, release | three approval modes that may change under a running timer; four ways to reopen; counters that must end loops; restarts | caps terminate; a new attempt starts from nothing; parked and finished tasks rest |
| **State mutex** (`state/StateManager.ts`: `AsyncMutex`) | locked flag, queue, AsyncLocalStorage memory | acquire, release, run, re-enter, `exit()` | re-entrance is remembered by the async context, which Node passes on to timers and promises | exclusion; no lost lock; fair; no deadlock with the channel mutexes |
| **MCP dispatch** (`server/McpAdapter.ts`) | rate limiter | one tool call = one handler under the state mutex | long handlers (git subprocesses) hold the lock | every call is served |
| **Board commands and agents' connections** (`server/WebSocketServer.ts`) | clients, the workers each connection has mentioned, which connection owns whose waiter | move, approve, reject, reopen, release, settings, delete, archive; connect, disconnect | a second set of transitions; connections that close while a worker waits | same rules as the tools; a waiter survives a foreign disconnect |
| **Long polls** (`tools/waitForTask.ts`, `chatWait.ts`) | one waiter per worker, subscriptions, timers | register, replace, wake, time out, cancel | lost wake-ups; replacement; a burst during a drain; a heartbeat awaited between looking and parking | who can claim is woken; nobody is answered twice; every call comes back |
| **Chat** (`state/chatStore.ts`, `util/mentionRouter.ts`, `util/chatBacklog.ts`) | channels, message files, cursors, unread counts, hop counters, pins, decisions | send, read, wait, join, pin, delete | appends interleave with reads; cursors against deliveries; counts cleared after awaits | a cursor passes over nothing; nobody sleeps on what was announced; loops bounded |
| **Teams** (`state/teamStore.ts`) | `memberIds`, `worker.teamId` | join, leave, delete | two pointers again | they agree |
| **Persistence** (`state/persistence.ts`, `util/atomicWrite.ts`, `state/FileWatcher.ts`) | files, the watcher's ignore set, a pending event, a debounce timer | write, edit, hear, reload | self-write suppression against real edits; reloads that queue, fail or take too long | no edit is lost silently; boards see what memory has |
| **Activity log** (`state/activityLog.ts`, `util/LogRotator.ts`) | an append-only file, rotation | append without waiting, flush | writes outlive their handler | lines whole and in order |
| **Epics, proposals, comments, metrics, budgets** | records | CRUD | a proposal resolved twice | -- |
| **Supervisor, daemon, stop and status** (`index.ts`) | `daemon.json`, `daemon.lock`, `daemon.stop` | start, respawn, back off, look, lock, serve, shut down | processes of the operating system that share three files, each may die between two file operations | a stop stays a stop; a crash is recovered from; a lock never outlasts a start-up |
| **moe-proxy** (`src/packages/moe-proxy`) | pending ids, queued lines, a reconnect window | forward, queue, reconnect, time out, shut down | late answers, disconnects with requests in flight | each request is answered at most once, and in the end |
| **VS Code client** (`src/moe-vscode/src/services/MoeDaemonClient.ts`) | connection state, an attempt in progress, a reconnect timer, flags | connect, disconnect, reconnect, retry | commands of the user and events of replaced sockets during an awaited attempt | one connection; a lost one is retried; the user's word stands |
| **JetBrains plugin, hook client, wrapper scripts, installers, migrations, generated files** | views, text | -- | -- | -- |

### 1.2 How they interact

Agents speak to `moe-proxy` over stdio and the proxy to the daemon over `/mcp`; boards speak to it over `/ws`.
Tool calls enter through `McpAdapter`, board commands through `WebSocketServer`; both run the handler under
`StateManager.mutex`. A handler reads the maps, writes entity files through `writeEntity`, replaces map
entries, appends to the activity log without waiting, emits an event to boards and waiters, and posts to
chat channels (each with a mutex of its own, always taken after the state mutex). Timers (sweeps, SPEED
approvals) and the file watcher enter through the same mutex. So the whole state machine is sequential
at the level of handlers, *if the mutex does what it should* - which is why the mutex is a module. Two things
are not sequential: a long poll, which leaves the mutex before it parks and can be passed by anything between its
awaits, and the processes around the daemon, which share files only.

PROJECT.json lists the hazards, each at the line where it bites, with the properties that cover it or a
note why none does.

## 2. Modules

| Module | What it is |
|---|---|
| `Ownership` | tasks and workers with both pointers; every operation that changes one of them; failing writes; sweep; restart |
| `Lease` | the abstract specification that Ownership implements: who holds what, and nothing else |
| `TaskLifecycle` | one task with its plan, steps, approval modes, timer, stamps and counters; crashes |
| `AsyncMutex` | the mutexes and the asynchronous contexts that use them |
| `Waiters` | `wait_for_task`: calls, connections, owners of waiters, and what the board offers each worker |
| `Chat` | message files, cursors and unread counts, `chat_wait` sessions and a `chat_read` beside them |
| `Mirror` | files, the file watcher, daemon writes and reloads, and what the boards have been shown |
| `Daemon` | supervisors, daemons, `stop` and `status` as processes over three files |
| `Proxy` | `moe-proxy`: lines, queue, pending requests, socket, reconnect window, shutdown |
| `Exchange` | the abstract specification that Proxy implements: unread, open, answered, over |
| `BoardClient` | the connection of the VS Code extension: attempt, timer, flags, the user's commands |
| `OwnershipProofs`, `AsyncMutexProofs`, `TaskLifecycleProofs`, `WaitersProofs`, `ChatProofs`, `ProxyProofs`, `BoardClientProofs`, `DaemonProofs` (Daemon and Mirror) | TLAPS proofs |
| `MC...` | constants, symmetry and bounds for TLC |

`AsyncMutex` justifies what the others assume of the daemon: that a handler is one step (`Ownership`,
`TaskLifecycle`), that a heartbeat's turn comes in order (`Waiters`), and that a reload gets the mutex however many
writes there are (`Mirror`). `Ownership` and `TaskLifecycle` describe the same handlers from two sides. The first
follows all tasks and workers and lets a handler's decision about a plan or a counter be nondeterministic; the
second takes that decision for one task and leaves worker records out. `Daemon` gives `Ownership` and
`TaskLifecycle` their restarts, and `Proxy` and `BoardClient` their daemons that come and go.

### 2.1 Ownership

`task[t]` is the column and `assignedWorkerId`, `worker[w]` the status, `currentTaskId` and the role that the
claim rules read from the worker's team. A record that does not exist has status `"ABSENT"`; the slot of
a deleted task is used again.

One action per operation:

| Action | Code |
|---|---|
| `CreateTask`, `DeleteTask`, `ArchiveEpic` | `taskStore.ts` createTask, deleteTask; `archiveEpic.ts`. `delete_epic` is a sequence of `DeleteTask` |
| `MoveCard` | `setTaskStatus.ts`, `archive_task`, and the commands UPDATE_TASK, APPROVE_TASK, REJECT_TASK, REOPEN_TASK, ARCHIVE_DONE_TASKS, all of which end in `updateTask` with a column |
| `ClaimNext`, `ClaimFindsTaken`, `ClaimNamed`, `ClaimReplacing` | the paths of `claimNextTask.ts`: ranked, all candidates taken, named, and named with `replaceExisting` |
| `SubmitPlan`, `WorkOnStep`, `CompleteTask`, `QaApprove`, `QaReject`, `RequestReplan`, `BlockPlan` | the tools of these names (`WorkOnStep` is start_step and complete_step) |
| `ReportBlocked`, `UnblockAndRetry`, `UnblockAndRelease`, `ReleaseTask`, `ReleaseUnassigned`, `EnterGovernance`, `DeregisterWorker` | the ways out of a task |
| `JoinTeam`, `LeaveTeam` | `teamStore.ts`, as far as the claim rules see it |
| `Sweep`, `SweepStopsInTimeout`, `SweepStopsInHeal` | the three phases of `runBlockedTimeoutSweep`, each on the result of the one before, and a write that fails in the first or the second |
| `Restart` | `purgeAllWorkers` of a starting daemon |

Shared helpers of the code are shared operators: `Moved` and `LetGo` are the two halves of `updateTask`
(drop the assignee on a change of column, let go of the prior owner), `Touched` is `touchWorker`,
`NextStatusForRelease` and `ReleaseAll` are those of `workerLifecycle.ts`.

*Failing writes.* With `FaultyDisk = TRUE`, a write may fail after others of the same handler were made: the handler
stops, or goes on where the code catches the error, and the records disagree. A failing *task* write that is the first
changes nothing, since memory is replaced after the file. Loops end where a write of theirs fails: the loop of
`DeleteTask` over the workers that point at the task (`taskStore.ts:280-284`, the task is gone already), that of `ArchiveEpic`
over the cards, and the first two phases of the sweep (`SweepStopsInTimeout`, `SweepStopsInHeal`), which the next sweep repeats from the
start. None of these is guarded in the code. The prune (`deleteWorker`) and what releases through `releaseWorkerTasks`
(deregistration, `enter_governance`) log a release that fails and go on.

*Silence.* A heartbeat changes nothing but a time stamp, so the sweep is given three arbitrary sets
of workers that were silent past its three thresholds, which are separate settings.

*Abstracted.* Priority, order, columns and epic asked for, and parking decide which candidate a claim
takes: here any. Whether a plan is finished: the sets `done`. WIP column limits, which the documents call a hint
for the UI, only forbid moves. A claim without a workerId assigns nobody. A task is created with a column and no
assignee: the other fields a CREATE_TASK may carry over `/ws` are not modelled, nor are UPDATE_TASK edits of fields
other than the column.

### 2.2 TaskLifecycle

`task` has the fields of the record that decisions read; `approvalMode` is the project's setting;
`speedTimer` says that `armSpeedModeApproval` has a timer pending; `history` is what happened (whether anybody
approved the plan, who has read the task since it was last sent back, how often QA bounced it). No
action's guard reads `history`: it exists for the properties.

`SetTaskStatus` and `DragCard` are the same move by a tool and by a board, with their two transition tables
and their two approval gates; `Reopened`/`Scrubbed` is what all reopening paths share
(`buildReopenClearingUpdates`); `QaReject` computes `Destination` (worker, architect, human) from the count after
the rejection; `SubmitPlan` has a disjunct per mode. `Restart` stops the daemon anywhere between
handlers, `CrashInSubmit` in the middle of submit_plan: its second write, or its timer, never happens. The
other handlers write the task once.

*Bounds.* `reopenCount` grows for ever but is only compared with the hard cap `MaxReopens + 1`, and is kept
up to there (`HardCap`). `refusals` stands for the handoffs within the last 24 h, up to the threshold;
older ones expire at any moment (`recent`). The plan's steps are the set `Step`; a plan is submitted
whole. The size critic acts in CONTROL mode only, as in the code.

*Abstracted.* Worker records and replacement rules (Ownership), WIP limits, amended steps, comments,
metrics, budgets, rails, wording.

### 2.3 AsyncMutex

`locked` and `queue` are the fields of each `AsyncMutex`; `ctx` are asynchronous contexts: dispatched calls,
timer callbacks, and promises nobody waits for. `holding` is what AsyncLocalStorage remembers in the
context, `owns` what it really acquired, `nested` the bodies it entered by re-entrance.

`Acquire`, `Enter`, `Leave` are `acquire()`, the resumption after its await, and the `finally` with
`release()`, which hands the lock to the head of the queue without opening it. `Reenter` and `LeaveNested`
are the re-entrant path. `Detach` starts a timer or a woken chat waiter through `exit()`; `FireAndForget` starts
an activity-log write or an un-awaited `postSystemMessage`, which inherit `holding` and may outlive
the lock. `MayCall` is what the code calls in which context: such a promise only ever takes a leaf mutex (a
channel's, or `activityMutex`), and a leaf's body takes none.

*Bound.* `MaxCalls`: the `runExclusive` calls of a context before it ends; contexts start again, so the
runs go on for ever.

### 2.4 Waiters

`call` are the calls of `wait_for_task` under way, each with the stage it has reached: `sent` (the message has arrived in a
JSON-RPC batch, behind other items), `touching` (the heartbeat waits for the state mutex; `turn` is that queue), `parked`, `leaving` (its timer has fired and
the heartbeat is written once more), `answered`. `waiter` is `activeWaiters`, `owner` is `waiterOwners`, `tracked` is
`mcpWorkerMap`. What `findMatchingTask` and `findPendingQuestion` make of the board is one fact per worker, `match`, and
one for all, `question`; they change with an event (`TaskWritten`) or without (`BoardChangesQuietly`: deletions, team
changes, a worker declared dead, reloads), and the second kind is remembered in `quiet`.

`Wait` is the arrival of a message, which makes its connection the owner at once, *before* there is a waiter;
`WaitRefused` a message that is refused after that. `WaitInBatch` is the arrival of a batch: *every* item is tracked at once
(`trackMcpWorker`), but the items are run one after another (`McpAdapter.handle`), so that anything may happen before `Begin`, `BeginRefused`, or
`Drop` when the client is gone by then. `passed` is history: the connections that asked for the worker meanwhile. `Park` and `AnswerAtOnce` what the handler does after the heartbeat,
without an await in between; `Disconnect` is `cleanupMcpWorkers`. `Expire` and `TimedOut` are the two halves of the timer.

### 2.5 Chat

A message is a number in the order of sending; `post` says how far `sendMessage` has come with it (`sent`: routed, before
its append has the channel's mutex; `written`; `announced`), `log` is the message file of each channel. One worker is
followed: its `cursor` and `unread` count per channel, its `chat_wait` sessions with the stages of `ChatWaitSession`
(drain channel by channel, park, wake, settle, advance the cursors, clear the counts), and a `chat_read` beside them.
`Page` is `getMessages`: with a cursor that is in the file (`Place`) the *oldest* messages after it, and otherwise the *newest* of
all, before which some may be left out (`LeftOut`); `Burst`, `Moves`, `Drained` are `summarizeChatBurst`. `delivered` and `skipped` are history.

*Bounds.* `N` messages, `Kinds` the kinds that are sent (`routed` to the worker; `human`, from a human to others or while the worker is IDLE or DEAD, which wakes a wait without a channel filter but is not
counted; `own`, sent by it; `plain`, between other agents), `Met`
the channels that begin with a message already read, `Filter` the channel sets calls are made with, `Deletable` the channels that may
be deleted. `ScanLimit`, `BurstCap` and `ReadLimit` are the program's 50, 100 and 10, made small so that each is reached.

*Not modelled.* An explicit `sinceId`, `chat_resync`, `chat_read` over all channels, mention parsing and the hop guard
(they decide the targets), pins, decisions, and the age limit of a file's window.

### 2.6 Mirror

Of a file matters whether memory has its contents (`stale`), whether the boards have been shown what memory has
(`unseen`), and whether it parses (`bad`). `ignored`, `pending`, `timer` and `processing` are the fields of
`FileWatcher`; `waiting` and `loading` the reloads in the queue of the state mutex and inside it; `writing` and `landed` a
daemon write before and after its rename. `GiveUp` is `withTimeout`: the watcher goes on, the reload stays. `missed`,
`failed` and `late` are history, and name the exceptions of the properties.

*Abstracted.* The file system's events for one file are merged while none has been heard. A deletion is a write. The
purge of proposals and the seeding of channels inside `load()` are left out. A daemon write may go over an edit memory
has not seen: nobody promises otherwise, and the file then holds what memory has. `project.json`, decisions and pins are written without
suppression, so their own events cause a reload.

*Bound.* `MaxLoads`: the reloads in the queue at a time.

### 2.7 Daemon

`sup[s]` is a supervisor (`moe-daemon start`), `child[s]` the daemon it spawned, with a phase for each point of
`startDaemon` between two file operations or probes; `info`, `lock` and `sentinel` are the three files; `cmd` a `stop` or
`status` under way; `seen` the `daemon.json` a process read before it asked `/health`. A process id is `[by, gone]`: the
child of a supervisor, and whether that child is dead by now. Any step may be followed by any other process's, and
`Crash` kills a daemon anywhere. A step is most often one file operation or probe. These take several together, so that nothing is
shown about what comes between: cleaning up (`index.ts:393-406`, with the look at the lock and its removal); reading `daemon.json`, finding its process dead and
cleaning up in `Start`, `Stop`, `Status` and `WaitedInVain` (730-736, 851-873, 889-903); the sentinel and what follows it in `AskedInVain` and
`StopHealthy`; and creating the lock with writing its owner. A live process is asked for its health in a step of its own, and the removal of
a stale lock in `acquireLock` (144-192) is two. `ForgetRestarts` is the sliding window of 60 s (785-789): crashes age out of it, the
oldest first, whatever the daemon is doing. `SlowProbe` lets a serving daemon miss the 200 ms of a probe, `SlowStart` lets a start-up exceed the
15 s after which its lock is called stale.

*Bound.* `MaxRestarts`: 2 instead of 5, so that giving up is reached.

*Not modelled.* The error event of the HTTP server after `listen`, which does not release the lock; pids that are used again; the death of a supervisor; the limit of three attempts
of `acquireLock`; finding a free port; the doctor command.

### 2.8 Proxy and Exchange

A request is a line, numbered in the agent's order; `queue`, `pending`, `retry`, `window` and `checker` are the variables
of the process, `wire` what the daemon has got and not answered, `answers` how often a line was answered. Every handler
is one action: `connect()` with its three outcomes, open with the flush of the queue (any subset of the sends may
throw), message, close with its three outcomes, a line with its five, the time-out check, the shutdown with its grace.
`DaemonFileChanges`, `WindowPasses`, `Closing` are the environment. Whether a handshake ends is up to the environment too: the socket is made without a
handshake timeout.

A line that is a JSON array (`Batch`) has no id: it is sent and its answer forwarded, but it is never tracked. Lines over
the limit (`Oversized`) are answered at once. A broken stdout, and the parsing of lines and of `daemon.json`, are left out.

`Exchange` is what an agent may rely on: a request that was read is answered at most once, and not after the end. `AnswersOnce` is the
refinement, with `stage` computed from `lines` and `answers`.

### 2.9 BoardClient

`attempt` is the `connect()` in progress: it waits for the daemon (`starting`), for its socket (`handshake`), or for the
close event of a socket that was given up meanwhile (`abandoned`); `by` is who awaits it, since only the timer's attempts
schedule another when they fail. `attempts`, `timer`, `offer`, `manual`, `shuttingDown`, `ping` are fields of the client.
`session` is history: the user's last word was to connect, and it was followed. `offer` says that some offer to reconnect is up: a
handshake of the timer's that times out at the last attempt schedules twice and makes two, so when one is taken others may or may not remain.

`BeginConnect` is `connect()` up to its first await, `LetGo` is `disconnect()`, `ScheduleReconnect` the method of that name
with its early returns (`MayRetry`); the actions are the commands, the timer's callback, the two ways an awaited daemon
and an awaited handshake may end, and the three ways a connection ends. What it takes to start a daemon is reduced to its
outcomes; messages and the copy of the board are not modelled.

## 3. What is checked

| Run | Instance | Question and answer |
|---|---|---|
| `ownership` | 2 tasks of one epic, 2 workers, no faults, symmetry | `OneTaskPerWorker` and the refinement `KeepsLease`: no sequence of claims, resumes, take-overs, releases and moves gives a worker two tasks. `OwnersAreLive`: whoever owns a task is on record, not DEAD, not governing. `PointersResolve`: no worker points at a deleted task, no DEAD worker at any. `SweepNeverYanks`: whatever subset of workers was silent past whatever threshold, a sweep takes no planning or coding task from a worker that is neither BLOCKED nor gone. `EvictedIsFree`: a live worker whose task passes to another is idle afterwards. |
| `ownership_faulty` | the same with failing writes, cards in WORKING and REVIEW, one worker that may govern, fair sweep | `AssignedIsActive`: whatever fails, no card keeps an owner where nobody acts on it. `DanglingIsHealed`: an assignment to a DEAD worker does not stay. |
| `task_lifecycle` | 1 task, 2 workers, 2 steps, 1 item, all modes, 2 reopens, 1 block, fair timer | Caps terminate (`BouncesAreBounded`, `TypeOK`), attempts start from nothing (`OwedWorkIsPending`, `InformedHaveRead`), parked and finished tasks rest (`ParkedIsResting`, `FinishedRests`), cards follow the published transitions (`CardsFollowTransitions`), and a plan with a timer leaves the approval column, through crashes and restarts (`SpeedPlansMove`). |
| `task_work_is_approved` | 1 worker, 1 step | violated: section 5. |
| `async_mutex` | 3 contexts, 1 channel, the activity log, 2 calls each | exclusion, no lost lock, first come first served, everyone is served. |
| `waiters` | 1 worker, 2 connections, 3 calls, one of which may come far down a batch; a task or a question at a time | `Inv`: sleepers and entries fit, a closed connection owns nothing. `NobodySleepsOverTasks`: who sleeps over a task does so because it became claimable without an event. `ForeignWaitersSurvive`: a connection that closes takes another's waiter along in three named cases only. `WaitsEnd`: every call comes back and is answered. |
| `chat` | 4 messages, 2 channels, 2 sessions, a read; limits 1, 2, 1; one message at most that is not routed to the worker | `CursorsPassNothing`, `NobodySleepsOnUnread`, and one entry per session (`Inv`). |
| `chat_backlog` | the same messages and sessions, limits 2, 2, 1 | violated: section 5. |
| `mirror` | project.json and one entity file, 2 reloads | `MirrorInv`: when nothing is under way memory has what the files hold and boards what memory has, but for the named exceptions. `EditsAreSeen`: and it comes to that, for each file but for an edit that was made while *that* file was suppressed. |
| `daemon` | 2 supervisors, 2 restarts, slow probes, slow starts | `Inv`: a lock of a living process is a start-up's. `StaysStopped`, `StopsForGood`: a stop is not undone by a respawn, and is carried out. `Recovers`: a crash is recovered from, whatever files it left, unless start-ups die too slowly to be counted. |
| `proxy` | 6 lines (a batch and an oversized one among them), queue of 2 | `AnswersOnce` (the refinement of Exchange), `SentInOrder`, nothing that was sent is lost with the process (`Inv`), no request hangs but in the queue behind a handshake that never ends (`RequestsEnd`). |
| `board_client` | the program's 10 attempts, autoConnect | `Inv`: one connection, one attempt, and a lost connection is being retried or given up. `DisconnectStays`: after the user's disconnect nothing connects. `AttemptsEnd`: no attempt refuses the next for ever, and retries come to an end. |

*Why the bounds are enough.* Two tasks and two workers are what a violation of ownership needs: a rule
relates a claim to at most one other task of the worker or one other worker of the column. One epic makes
the solo rule refuse most. With failing writes the cards of the run stay in a column that agents work in and the one that a sweep
heals (`FewColumns`), and one worker may govern (`FewRoles`): what lies between adds states, not ways for two pointers to disagree; the safety
properties are proved for all columns, each with the failures its statement admits, in `OwnershipProofs`. Two steps tell a half-finished plan
from a finished one; two reopens separate soft cap, hard cap and the rejection before; with two workers one can have read
what the other has not; a refusal threshold of 1 suffices for the cascade to be reachable. Three contexts are a holder, a
waiter and a newcomer, or a timer with its arming call and a third. For Waiters the rules relate one worker's calls and
connections: two connections and three calls are a waiter, the one that replaces it, and one still at its heartbeat; one of them in a batch (`Batched`) is enough for it to be overtaken,
and a task and a question end a wait alike (`NewsOfOneKind`). For
Chat, four messages are one already read, one in the drain's page, one the limit cuts off and one that arrives in between;
two sessions are the one that ends and its successor; of what is sent one message may be a human's, or the worker's own ahead of the others (`FewOthers`): the one to wake, the other to fill a page. `chat_backlog` scans two messages at a time, as
a scan reads more than a page of `chat_read` in the program too (50 and 10), so that the trace is that of the read. For Mirror, `project.json` and another file tell the announced writes from the unannounced, and
what a broken `project.json` blocks; the same module with three files (12.6 million states) also passes. For Daemon, two
supervisors are what the lock is for; two restarts reach giving up. For Proxy, six lines fill a queue of two, overflow
it, and leave some for after the reconnect.

Each property has a mutant in its module: a definition changed the way a plausible bug would,
kept next to the original. No run fails to notice its mutants.

*Deadlock* is checked in every run but those of `Proxy` and `Daemon`, whose processes may all have ended, and `Chat`, whose
messages run out.

### Fairness

* `Ownership!FairSpec`: `WF(SweepDead)`. `startBlockedTimeoutCheck` runs the sweep every five minutes, and a DEAD
  record is touched by nothing (`touchWorker` skips it), so it is past its threshold at some sweep and
  after. Assumed: the process lives long enough, and the file watcher does not reload more often than
  every five minutes for ever (each `load()` re-arms the interval).
* `TaskLifecycle!FairSpec`: `WF(SpeedTimerFires)`. A timer that stays set fires, and gets the state mutex
  (`EveryoneIsServed`).
* `AsyncMutex!FairSpec`: each context that was granted a lock, or runs a body, proceeds: no handler waits
  under a lock for anything but a lock, a file or a git process with a timeout. Nothing is assumed
  about contexts outside bodies: no call need ever arrive.
* `Waiters!FairSpec`: a call proceeds from the stage it is at: the items before it in its batch end (they run under the state mutex or are
  waits themselves), the heartbeat's turn comes (`EveryoneIsServed`), the timer of a
  parked call fires within ten minutes, a settled promise resumes its handler. Nothing is assumed of the board, the chat or
  the connections.
* `MirrorFairSpec` of `Mirror`: the file system reports a change in the end, the debounce timer fires when edits pause, a write and a reload end.
  `SF` for the reload's turn: the mutex is taken and released by writes for ever, but it is granted in order (`NoOvertaking`), so
  that a waiting reload is served.
* `Daemon!FairSpec`: processes run, probes end, timers fire. `Fail`, `Crash`, signals and commands are never assumed. `Recovers` assumes
  in its statement that one supervisor is up at a time, and that crashes do not go on ageing out of the window while daemons die before they serve
  (`CrashesCount`).
* `Proxy!FairSpec`: timers fire; a socket that was closed closes (`ws` sees to it after 30 seconds); time passes, for each pending request on its own:
  the checker comes by again and again, and at some time finds *this* request too old. Nothing is assumed of the daemon, its file, the agent,
  the operator, nor of a socket that connects: `index.ts:323` sets no handshake timeout, so it may stay so for ever. `RequestsEnd` says in its
  statement which requests that concerns: those that are in the queue while it lasts. A request in flight is not among them, nor one that comes after
  the handshake has ended.
* `BoardClient!FairSpec`: a timer fires, the wait for the daemon ends after ten seconds, the handshake after fifteen, and a closed socket
  reports its close.

## 4. What is proved

TLAPS checks every step, for every value of the constants under the assumptions the modules name. Every property that a run finds to hold
is stated by a theorem, but for `EveryoneIsServed`.

*Liveness and `ENABLED`.* `WF_vars(A)` says that `A` is taken again and again unless it is disabled again and again, and the prover cannot look into
`ENABLED`. The liveness theorems therefore assume their fairness spelled out (`SweepFairness`, `TimerFairness`, `BoardFairness`,
`WaiterFairness`, `ProxyFairness`, `DaemonFairness`, `MirrorFairness`), each clause of the form `[]<>~guard \/ []<><<A>>_vars` with the guard that `A` has
in the code written out: the timer is set, the socket is closing, the reload waits and the mutex is free. Where the guard is `ENABLED <<A>>_vars`
this *is* `WF_vars(A)` (`<>[]~guard` instead of `[]<>~guard`: `SF`). TLC compared each guard with `ENABLED` in all states of the runs'
instances and found no difference; the runs themselves check the same properties under `FairSpec` with `WF` and `SF`. The rest of each
argument, which steps lead where and what they leave alone, is proved for all values of the constants.

`OwnershipProofs`

* `TypeCorrect` (`TypeOK`), `OneTaskEach` (`OneTaskPerWorker`), `ActiveOnly` (`AssignedIsActive`), each for either
  value of `FaultyDisk`. The inductive invariant is their conjunction `IInv`. The argument: every step either
  only *drops* assignments (`Drops`: each task keeps its owner, in its column, or loses it) or *claims*
  (`Claims`: one worker that holds no other active task gets one task in an agent's column). `DropsOrClaims` establishes
  this dichotomy once per handler; preservation then needs two cases, not thirty. `AssignedIsActive` is needed for
  `OneTaskPerWorker`: the claim rule looks only at *active* tasks of the claimer.
* `ImplementsLease` (`KeepsLease`): a drop is `Lease!Revoke`, a claim `Lease!Grant`.
* `LiveOwners` (`OwnersAreLive`), assuming `FaultyDisk = FALSE`: a step *spares* every owner it leaves in place (`Spares`),
  or is a claim, whose claimer has just been written alive. With failing writes the formula is false
  (a swallowed failure of deregistration), which is why the theorem names the assumption.
* `PointersAreGood` (`PointersResolve`), assuming `FaultyDisk = FALSE`: inductive beside the types. With failing writes it is false, as the
  loop of `DeleteTask` may stop half-way. A step either leaves the tasks
  on record and points workers at such tasks only, or deletes a task and clears every pointer to it; no handler gives a task to a DEAD
  record.
* `SweepYanksNothing` (`SweepNeverYanks`), for either value, of a sweep that runs to its end: whatever sets of silent workers the three phases of a sweep are given.
  It follows from `IInv` without a look at `Next`: the phase that releases a reviewer's cards would take its other task along, if there could
  be one.
* `EvictionFrees` (`EvictedIsFree`), assuming `FaultyDisk = FALSE`: a task passes directly from a live owner to another worker by `ClaimReplacing` only
  (`PassesByReplacing`), which writes the prior owner IDLE first. With failing writes that write is among those that may fail.
* `DanglingEnds` (`DanglingIsHealed`), for either value: a sweep that finds a DEAD worker past its threshold takes every task from it
  (`SweepDeadFrees`), and under `SweepFairness` there is such a sweep, or a state without any DEAD worker.

`AsyncMutexProofs`

* `MutexTypeCorrect`, `BodiesExclude` (`MutualExclusion`), `LockIsNeverLost` (`LockIsInUse`). The invariant adds to them
  `Memory` (a context that remembers the state mutex and is a call does own it; only loose promises remember more than they own,
  and they never take it), `Exclusion` (at most one context has custody of a lock) and `Waiting` (who is in a queue is queued for
  that lock, once).
* `FirstComeFirstServed` (`NoOvertaking`): a context comes to a lock either from the head of its queue, when the holder releases it, or by
  finding it open; and a lock that is open has no queue (`LockIsInUse`), so nobody who has just asked overtakes. `Waiters` and the fairness
  of `Mirror` rest on this.
* `NoDeadlock` (`NobodyWaitsInACircle`): whoever waits for a lock waits for a context that can go on, or for one that waits for such a context, so
  that in no state everybody waits. The chain has two links at most, because the locks are taken in one order, the state mutex before a leaf: who is in the body of a leaf waits for nothing
  (`Orderly`), and a lock that somebody waits for (`Listed`: in its queue) is in somebody's custody (`LockIsInUse`). This is the safety half of `EveryoneIsServed`.

`TaskLifecycleProofs`

* `TaskTypeCorrect`, `ParkedStays`, `BouncesEnd`, `WorkIsDoneAnew`, `ReadersAreInformed` (`TypeOK`, `ParkedIsResting`, `BouncesAreBounded`,
  `OwedWorkIsPending`, `InformedHaveRead`). The invariant adds `HeldIsActive` (an owner implies an agent's column), `ParkedAtCap` (a parked
  task stands at the hard cap, so that it cannot be bounced again) and `BouncesAreCounted` (history counts no more bounces than the task
  does). A step is *quiet* for them or a *reopening*; the lemmas `QuietStep` and `ReopeningStep` take care of all but the handlers
  that decide.
* `CardsAreMovedByTheRules` and `FinishedWorkRests` (`CardsFollowTransitions`, `FinishedRests`): each step that changes the task `Follows` the
  table and `StartsOver` if it leaves the resting columns.
* `PlansMove` (`SpeedPlansMove`): a plan that waits with its timer set keeps the timer or leaves the column, or the mode is changed (`TimerLasts`, by cases over all
  handlers, the crash in `submit_plan` and the restart that sets the timers again included); the timer that fires takes the plan along.

`WaitersProofs`

* `CallsAreFound` (`Inv`), `NobodySleeps` (`NobodySleepsOverTasks`), `ForeignWaitersLive` (`ForeignWaitersSurvive`). The invariant adds `Placed`
  (who is in `turn` is touching), `Once` (and there once), `InLine` (who is touching is in `turn`) and `OwnerIsLatest`: the owner of a
  parked worker is its waiter's connection, unless another has asked since and was refused, is still in line *behind* it or behind its batch, or had asked before the waiter's
  own call began and so was run first (`passed`).
  That holds because the mutex is granted in the order of arrival; with a mutex that is not, it would not.
* `WaitsComeBack` (`WaitsEnd`), for any number of workers, connections and calls. What the state mutex promises is a hypothesis (`MutexServes`: a call
  whose heartbeat waits is served), because it is the liveness property of another module, where it is checked. From there on each stage
  leads to a later one: nobody but the call itself moves it, except from `parked` to `answered` (`OthersWakeSleepers`).

`ChatProofs`, for any channels, messages and sessions, assuming that the limits are positive and that `N` bounds the messages, those that are
there at the beginning included

* `CancellationFindsIt` (`Inv`): at most one session is unfinished, and `chatWaiters` has it. Inductive beside the types.
* `NothingIsStranded` (`CursorsPassNothing`). A cursor is *not* monotonic: a delivery and a read write one they computed before an
  await, and may set it back. So the invariant does not compare a cursor with the one before; it says of every number that is a cursor, or may
  become one (`CursorsMark`: the cursors and those a drain began with; `SessionsClear`: the messages in a session's hands and the
  moves it is about to make; `ReadClears`: the last message of a read's page), that whatever of others lies `Behind` it in its channel
  was had, or is delivered with it. This lasts because nothing comes to lie behind a written message: a channel's messages are written in the
  order of their numbers, which is the order of the channel's mutex (`InTurn`), and its file has them in that order (`Filed`).
  `PageFacts` says once what a page leaves out, from a definition of `Page` by places in the file; `Bursts` that a burst cut to its oldest messages leaves out nothing
  before what it keeps.
* `NothingIsSleptThrough` (`NobodySleepsOnUnread`), from `Finds`: of a drain that was not disturbed (nothing buffered), each outstanding message that
  should wake the session has been read, or lies in a channel still to be read; and `Parks`: who sleeps has nothing of either kind.

`ProxyProofs`

* `OrderIsKept` (`SentInOrder`), from `InOrder`: what was sent and what is queued form *one* increasing sequence, because the queue is empty while the
  socket is open; a line sent directly never overtakes one that waits.
* `SentAnswered` (`Inv`), from `Counted`: a request of which the agent has heard nothing is queued or pending, and not both, and `Connected`: nothing is
  pending before a socket was open or after the end.
* `OneAnswer` (`AnswersOnce`): Proxy implements Exchange. Each action maps to reading, to answering a set of open requests, to the end, or to a
  stutter (`SeenStep`).
* `NoRequestHangs` (`RequestsEnd`), for any number of lines and any size of the queue. The invariant adds `Heard` (a request that was read is
  answered, pending or queued) and `Ready` (a proxy without a socket has a retry set, one with a socket has its checker). A request in flight is answered by
  its time-out, unless the daemon, a close or the shutdown comes first. A queued one waits for the next socket that opens, or for the end of
  the five minutes: until then there is always a retry or a socket under way, which lead to each other (`WaitsStep`), and when the window has passed
  the next failure ends the process. Nothing ends a handshake, so the hypothesis of the property is what leads out of `connecting`: the request
  is not queued behind one for ever (`Stuck`).

`DaemonProofs`, first half, about Daemon

* `LockOnlyInStartup` (`Inv`), with `Supervised`: a living daemon has a supervisor that supervises it, so no process is spawned twice.
* `StopOutlivesCrash` (`StaysStopped`), from `Told`: when a stop was answered, the sentinel is there for a supervisor in backoff,
  or the supervisor knows. The promise is about a supervisor that was alone when the stop came, which `Halted` says.
* `StopsTakeEffect` (`StopsForGood`): a supervisor for which a stop was meant, and which is still up, is in its backoff, or its daemon is going down, or has ended. Each
  leads to the next and the last to the end, since the backoff and the end of a daemon read the sentinel (`HaltedStays`).
* `CrashesAreRecovered` (`Recovers`), assuming `MaxRestarts <= 5`, the code's `SUPERVISOR_MAX_RESTARTS`: a child that crashed is respawned, and each phase of the start-up leads on
  to serving, to a crash that is counted, or to the end of the supervisor. The stale lock and the `daemon.json` of the dead daemon do not stop it, as
  its pid is gone. Once crashes age out of the window no more but under a daemon that serves (`CrashesCount`), each crash before that is counted for good
  (`AgeingStays`). The attempts are unrolled from 0 to 5: for a bound that is any number, the argument is an induction whose statement is a
  temporal formula, which the prover cannot do.

`DaemonProofs`, second half, about Mirror

* `NothingIsForgotten` (`MirrorInv`), from the inductive `MirrorIInv`. `MirrorInv` speaks of
  moments at which nothing is under way; `Accounted` follows a difference through those at which something is: its event, the pending
  event with a timer or a reload that will take it up (`TakenUp`), a reload in the queue. Events can be lost where they are skipped only,
  hence `Excused` (a suppressed file that memory has not is about to be written over, or is in `missed`) and `Quiet` (the same for an event that is
  left pending during a reload). `Awaits` and `InTime`: a reload that is awaited exists, and until one is given up there is only that
  one, so that its end shows the clients everything.
* `EditsComeThrough` (`EditsAreSeen`), for any number of files and of reloads in the queue, each file excused by an edit of its own only (`Overdue`). `Accounted` is what makes it go: an edit that memory has not, and that nothing
  excuses, always has an event under way, a timer or a reload, and each of these leads to the next. The reload's own turn needs strong
  fairness, as in `MirrorFairSpec`.

`BoardClientProofs`

* `LossIsRetried` (`Inv`) and `UsersWordStands` (`DisconnectStays`). The invariant adds `Ours`: while the user's last word is to stay connected,
  it was no disconnect, and the attempts under way are the timer's, whose failures schedule the next; after a disconnect no
  timer is set. `Scheduling` says once what `scheduleReconnect` leaves behind.
* `RetriesComeToAnEnd` (`AttemptsEnd`), assuming `MaxAttempts <= 10`, the code's `maxReconnectAttempts`: an attempt only goes on or ends (`AttemptsGoOn`), in a session the timer
  and the attempts take turns (`Alternates`), and each turn that does not end the retrying has counted one more (`RetriesAreCounted`). The ten turns are
  unrolled, four at a time (`FourRetriesAreCounted`), for the same reason as in `CrashesAreRecovered`.

*What the proofs changed in the models.* That there are at most `N` messages needed an assumption that `Chat` had not stated (those met before
the beginning count), and the type of a message allowed only the kinds that calls send, which those need not have. A branch of `Proxy`'s stage
function overlapped another. An exception that `Mirror` made for an event left pending without timer or reload turned out never to be needed, and is gone. The fairness of `Proxy`
had promised that the checker finds *some* request too old, which was enough for the run only because of how few requests it has; now it promises that for each one.
The pointer theorem of `Ownership` holds on a disk that works only, and lost its claim to more once deletions could fail half-way.

*Only model-checked.* `EveryoneIsServed`: that the queue of a lock moves up until it is one's turn is an induction over the place in it whose statement is a temporal
formula, and none of the installed provers can instantiate the induction theorems. `NoDeadlock` and `FirstComeFirstServed` are its safety
half: somebody can always go on, and nobody overtakes. Likewise that the guards of the fairness formulas are `ENABLED` of their actions, and that fairness is what the code's
scheduling gives (section 3). No module uses a RECURSIVE operator.

## 5. Where code and documents disagree

Found while modelling, and shown by a run that finds the documented statement violated:

1. *Approval gate* (`task_work_is_approved`). set_task_status guards AWAITING_APPROVAL to WORKING in CONTROL mode; the same tool also moves the
   task to PLANNING, to BACKLOG and to WORKING, plan included.
2. *Backlog of a wait* (`chat_backlog`). chat_wait "returns any unread backlog immediately", but what it takes for backlog is the channels with an unread
   count, and `chat_read` clears the count of its channel whether or not its limit cut the page, and for what was announced during its await. In the trace two
   messages are announced in one channel, a read takes a page of one and clears the count, and the next wait parks over the other. Delivery by a wait
   clears counts after an await in the same way (`util/chatBacklog.ts:167-188`).

Seen while modelling, described here without a run:

* *Resume.* claim_next_task says that re-claiming one's own task "stays allowed"; the solo rule refuses it when
  another live worker is in the same epic and column.
* *CONTROL mode.* "All plans require manual approval", but a SPEED timer armed before the switch still approves.
* *Refusal cascade.* Notes of releases of an unassigned task "never park the task", but they are recorded and counted at
  the next real release.
* *Transitions.* The board's table lacks BACKLOG to REVIEW though it is to be "in sync" with the tool's (`server/WebSocketServer.ts:300`);
  qa_reject parks with "the one architect re-plan spent" although a human's drag can have consumed the count without any re-plan.
* *Steps of an unassigned task.* A step call marks its caller CODING with a pointer to the task without assigning it; when the task leaves WORKING,
  `updateTask` finds no owner to let go and the worker stays CODING, which the comment at `state/taskStore.ts:195-200` wants to avoid.
* *Waiters* (`server/WebSocketServer.ts:113-118`, 933-937, 972-975 say that another connection's live waiter must survive). A message that is refused, or
  whose turn has not come, makes its connection the owner already; if that one closes, the first connection's waiter is cancelled, and if the first
  closes, its waiter stays parked until its timer fires. With a batch a wait that *did* register can be lost too: all items are tracked on arrival
  (908-913), a later wait of the batch registers after another connection has asked for the same worker and been replaced, and the close of that other
  connection cancels it. Deletions, team changes, a worker's death and reloads wake nobody.
* *Failing writes.* `deleteTask` removes the task and then clears the pointers to it one by one without a guard (`state/taskStore.ts:280-284`): a write that fails
  there leaves the rest pointing at nothing, and the caller gets an error for a deletion that took place. `archiveEpic` likewise stops half-way, against the
  "atomic safety gate" of its comment (`tools/archiveEpic.ts:38-39`), and one failing write keeps a sweep from pruning anybody.
* *Daemon.* Two supervisors can end up with two daemons: the look comes before the lock and is not repeated (`index.ts:480`). Removing a stale lock is a check and
  an unlink, the forced exit unlinks whoever's lock is there, and a slow probe makes `status` and `start` remove the files of a live daemon (comment at
  339-340). A respawned child that meets another's failing start-up exits with 0, and its supervisor with it (491-494). A stop during a start-up leaves the
  sentinel and the daemon comes up. Start-ups that take some 12 s or more and then die never make five in a minute (785-789), so that their supervisor neither serves nor
  gives up.
* *Proxy.* Batches get no error when the connection goes, a time-out passes or the process ends (comment at `src/packages/moe-proxy/src/index.ts:399-402`, "for every
  in-flight request"). When `connect()` gives up (303-318), the queue is not answered, unlike on the close path (422). The socket has no handshake timeout (323): behind a port that accepts TCP and never
  completes the upgrade, which the VS Code client guards against (`MoeDaemonClient.ts:217-220`: "wedging the client in 'connecting' forever"), the queued
  requests get no answer and no error, as time-outs are kept for sent requests only.
* *BoardClient.* An orderly stop announces itself, which sets `daemonShuttingDown`, on which `scheduleReconnect` returns (`MoeDaemonClient.ts:976`): no retry, against
  `src/moe-vscode/MANUAL_TESTS.md:21-22` and `src/docs/DEVELOPMENT.md:349`. A disconnect during the wait for the daemon is overridden by that attempt, and, as
  `manualDisconnect` stays set, a later loss is then not retried. `moe.reconnect` during an attempt returns silently and reports success. A timer that fires into a
  user's failing attempt ends the chain of retries. `stateReady` is reset neither by `disconnect()` nor by a failed handshake.
* *Boards.* Only the snapshot leaves ARCHIVED tasks out (comment at `MoeDaemonClient.ts:735`); the broadcasts of `index.ts:599` and `state/sweeps.ts:78`, 296 do not. The reply
  to a board command is sent a few promise turns after the mutex is released, so that a queued deletion's TASK_DELETED can precede the TASK_UPDATED of the
  same task, and a card stays on the board until the next snapshot.

## 6. Not modelled

* *Copies of the board.* What the boards hold against what the daemon sent: planned below.
* *Team records, proposals and rails.* Records of their own; team roles enter claims through Ownership. Approving a proposal twice, or a rail that was not
  applied though its proposal is APPROVED, are in the hazard list without a property.
* *WIP column limits*, which forbid moves and nothing else.
* *Migrations, generated files, installers, the JetBrains plugin, the hook client, wrapper scripts, metrics, budgets,
  comments, read-only tools.* Bookkeeping, text or views that no decision here depends on. Half of the repository's implementation lines are one generated file
  of texts (`generated/skillFiles.ts`).
* *The interior of file and network calls*, beyond what is said per module above.

## 7. Plan

Done: `Ownership` with `Lease`, `TaskLifecycle`, `AsyncMutex`, `Waiters`, `Chat`, `Mirror`, `Daemon`, `Proxy` with `Exchange`, `BoardClient`, and proofs of the
safety properties of each and, given fairness, of the liveness properties of all but `AsyncMutex`.

In order of importance:

1. `Boards`: what a board shows against what the daemon has, with replies that leave the mutex late.
2. `Teams` and `Rails`: the two-step membership, and proposals that are resolved twice.
3. The parts of Chat that are left out: `chat_resync`, `chat_read` over all channels, deletion of a channel while a message waits for its mutex.
