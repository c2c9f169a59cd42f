# A TLA+ model of Neo Cloud Agent

Neo Cloud Agent runs coding agents for its users. A *run* is one conversation;
its *worker* is a process that works on the run's files inside an execution
slot; the *control plane* (`packages/control-plane`) is a Node.js server that
decides when a worker is started, what it is told, when it is stopped, and where
its files go afterwards. This directory models that decision making in TLA+,
checks it with TLC, and proves part of it with TLAPS.

Paths below are relative to the repository's `packages/` unless they say
otherwise. `PROJECT.json` lists every run, every mutant of the code that a run
must catch, and for every definition the source lines it stands for.

## 1. Inventory

The control plane is a single JavaScript thread. Everything that can go wrong
goes wrong at an `await`, at a restart, or at the other end of a connection.

| component | state it keeps | operations | talks to |
|---|---|---|---|
| execution slots (`runtime/vm-slots.ts`, `vm.ts`, `persist-workspace.ts`, `local.ts`) | the slot table (`runId`, `status`, `mounted`), mounted trees, durable copies, child processes | `claimVmSlot`, `provision`, `adopt`, `destroy`, `persistAndRelease`, `releaseVmSlot`, `reconcileOrphanVmSlots` | orchestrator (calls, exit hook), file system |
| run lifecycle (`orchestrator/orchestrator.ts`, `worker/src/index.ts`) | run records, `inbound`, `handles`, `heartbeats`, `preparing`, `activeTurns`, `releasingIdle`, `startingQueued`, leases on disk | `createRun`, `attachWorker`, `queueRun`, `tryStartQueued`, `enqueueFollowUp`, `resumeRun`, `abortRun`, `archiveRun`, `releaseIdleWorker`, `bindWorkerExit`, `expireStaleWorkers`, `recoverLiveWorkers`, `takeInbound`, `ingestEvents` | slots, worker (polls and event posts), lease watch |
| loop turns of the agentscope kernel (`loop/client.ts`, `loop/src/turn.ts`) | `pendingLoopStarts`, `startingLoopTurns`, `currentTurnId`, queued follow-ups | dispatch, complete, signal, fail | orchestrator, neo-loop service, tools channel |
| tools channel (`loop/src/hub.ts`, `tools.ts`, `worker/src/tools-ws.ts`, `tools-server.ts`) | a socket per run and its pending calls; the worker's child processes | accept, replace, call, reply, time out, close; execute, kill, dial again | neo-loop, worker |
| repeat guard (`loop/src/repeat.ts`) | the last signature and its streak, the answers of a turn | `classifyRepeat`, `runToolBatch` | neo-loop |
| desk dispatch (`desks/store.ts`, `desk/app/host.ts`) | offers, waiters, the inbox of a desk, claims; the host's `localRuns`, `startingHere` and worker processes | offer, claim, reject, release, hand-off, lost heartbeat; reserve, retire, start, stop | orchestrator, desk clients, worker |
| warm pool and builds (`env/warm-pool.ts`, `builds.ts`) | an index file of prepared copies | refill, claim, invalidate | scheduler, `createRun` |
| workspace store (`runtime/workspace-store.ts`) | the durable copies of all runs, their ages and sizes | restore, write back, evict by age and by budget | slots, scheduler |
| event log and streams (`events/`) | the log of a run, sequence numbers, folded deltas | append, fold, replay, subscribe | everything |
| automations and scheduler (`automations/`) | schedules, `nextRunAt`, `lastRunId` | tick, fire, move on, edit, delete | `createRun` |
| GitHub subscriptions (`subscriptions/`) | which run follows which pull request, counts and the last delivery of each subscription | subscribe, deliver, autofix | `enqueueFollowUp` |
| persistence and object archive (`store/`, `objects/`, `platform.ts`) | slim records, queue files, pictures, rows of the database, saves under way, objects and the archive's timer | flush, collect pictures, load, hydrate, mirror, copy, restore, delete | orchestrator, database, object store |
| llm gateway (`llm-gateway/`) | token buckets and leases in flight per run and organisation, a cache of answered steps | admit, proxy, release, replay a step | worker, providers |
| limits of the API (`security/rate-limit.ts`) | counts per window in Redis, buckets in memory, leases of event streams | consume, fall back, acquire, release | HTTP API, Redis |
| Firecracker and Docker runtimes, source control, HTTP API, projects and memory, clients | little beyond the processes and files they touch | | |

Interactions that matter most:

* orchestrator → slots: `provision` and `destroy` are awaited calls. The slots
  call back through the worker's exit hook, which starts its own write-back
  while a `destroy` of the same worker may be waiting too.
* orchestrator → worker: no call at all. The worker *polls* (`takeInbound`
  empties the inbox and the reply may be lost) and is stopped by a signal.
* worker → orchestrator: event posts (`agent.start`, `agent.end`,
  `run.start_failed`), each of which overwrites the run's status.
* desk ↔ orchestrator: every message that finds no worker is offered to the desk
  twice, on its inbox stream and to its lease poll; what the desk posts (claim,
  reject, release, abort) arrives in no order with the offers.
* neo-loop ↔ tools worker: a WebSocket that the worker dials again when it
  breaks; frames are looked up by run, not by socket.
* control plane → browser: a stream of events, and a poll when it is quiet.
* the lease watch, every 2 s and not awaited: idle release, stale heartbeats,
  reconciliation of slots.

### What has to be right

* **Slots.** No two runs on one slot; no run on two; a worker keeps its slot
  and its mounted tree while it lives; a run's durable copy holds that run's
  files and, once it is gone, its last edit; a slot comes back.
* **Run lifecycle.** One worker per run; a message accepted from a user is not
  mislaid, not answered twice, and answered in the end; a queued run starts when
  a slot is free; nobody waits for a worker that is gone; a run marked
  `preparing` is really being prepared; an archived run stays archived; an idle
  release stops idle workers only.
* **Loop turns, tools channel, desk dispatch.** One turn at a time and each
  follow-up in exactly one turn; each tool call answered once, by its own
  connection; each offer started by at most one desk and never swallowed.
* **Pools and stores.** A copy is handed out once and is complete; nothing in use
  is evicted, and a write-back under way is not emptied.
* **Streams.** A reader that reconnects misses no event and shows no token twice.
* **Automations, subscriptions.** A due time starts one run, a delivery wakes a
  subscription once, within the limits.
* **Stores.** What a user was told is accepted is there after a crash, with its
  picture; a deleted run stays deleted.
* **Limits.** A lease is given back once on every path; nobody gets more than the
  burst and what was gained since; a client told when to come back is let in then.

The full list of hazards, with the line where each one bites and the properties
that cover it, is `hazards` in `PROJECT.json`.

## 2. Modules

| module | what it is |
|---|---|
| `SlotLease` | abstract: what the pool of slots promises to the rest of the system |
| `VmSlots` | the slots in detail: table, mounts, trees, write-backs, worker processes |
| `MCVmSlots` | `VmSlots` for TLC, with the symmetry of runs |
| `VmSlots_proofs` | theorems about `VmSlots` |
| `RunLifecycle` | the orchestrator and the workers of several runs that share the slots |
| `MCRunLifecycle` | `RunLifecycle` for TLC |
| `RunLifecycle_proofs` | theorems about `RunLifecycle` |
| `MessageLedger` | abstract: what a run promises about the messages a user sends it |
| `LoopTurn` | the turns of one Remote Control run: orchestrator, neo-loop and the desk's worker |
| `MCLoopTurn` | `LoopTurn` for TLC |
| `LoopTurn_proofs` | theorems about `LoopTurn` |
| `DeskHost` | one computer with Neo Desk, its local workers, and the control plane's side of its runs |
| `ToolsChannel` | the tool calls of one neo-loop turn: repeat guard, hub, tools worker |
| `ToolsChannel_proofs` | theorems about `ToolsChannel` |
| `EventStream` | the event log of one run and a browser that shows it |
| `Workspaces` | the files of runs: checkout, builds, warm pool, slot, write-back, eviction |
| `Workspaces_proofs` | theorems about `Workspaces` |
| `Automations` | scheduled runs under ticks that overlap |
| `Subscriptions` | GitHub deliveries that wake a run |
| `Persistence` | one run's record on disk, in the database and in the object store |
| `Persistence_proofs` | theorems about `Persistence` |
| `RateLimits` | the model gateway's buckets and leases, the API's limits, event-stream leases |
| `Edges_proofs` | theorems about the two ends of the system, `DeskHost` and `RateLimits` |
| `Services` | the eight above side by side, their common type invariant and their fairness |
| `Services_proofs` | theorems about `Automations`, `EventStream` and `Subscriptions`, and about all eight side by side |
| `MCServices` | `Services` for TLC: the deliveries, a symmetry and a bound |

`SlotLease` is what `RunLifecycle` relies on when it keeps only the set `held` of
runs that have a slot. `LoopTurn` is the other kind of run: its tools worker sits
on a desk, so it takes no slot, and the model's turns run in a third process,
neo-loop. `MessageLedger` is what the user of such a run may rely on.

### VmSlots

| state | code |
|---|---|
| `slotRun`, `mounted` | `slots[]` in `vm-slots.ts`; `status` is busy exactly when `runId` is set, so it is not a variable of its own |
| `disk`, `durable` | what the mount path shows, and `hostRunsDir/<run>`: whose files, and which edit of that run is the last one in them |
| `edits`, `unsaved` | the last edit of each run's workers; history: the last edit when a write-back of the run failed |
| `status` | the run's status, as far as `slotOwnerIsLive` tells statuses apart |
| `setups` | the calls of `attachWorker` that wait in `VmSlotRuntime.provision`: for the mount, the restore, or the release in its `catch`; `guarded` are createRun's, which the `preparing` mark protects from the heartbeat check |
| `procs`, `child`, `handle` | processes (spawned by this control plane, adopted after a restart, or orphans it does not know), `LocalProcessRuntime.children`, the orchestrator's `handles` |
| `teardowns` | the calls of `persistAndRelease` and `releaseVmSlot` that wait, each with the slot object it found *before* the wait |

Each action is the code between two awaits. The essential step is `UmountDone`:
`releaseVmSlot` marks idle the slot object it looked up before the umount,
whoever holds that slot by now. `Exit` and `Destroy` both start a write-back of the
same worker, as the exit hook and the `finally` of `destroy` do.

Whose slot the reconciler takes goes by the run's status, never by what is under way:
`Live` is `slotOwnerIsLive`. A setup that `resumeRun` or `tryStartQueued` began has no
`preparing` mark, so when it outlasts the heartbeat timeout `expireStaleWorkers` marks its run
NOT_YET_STARTED (`Expire`), and the same watch releases the slot under the setup. That is
the overlap `"slow"` of `Overlaps`; the other, `"again"`, is a follow-up to a run that is
PROVISIONING, for which `resumeRun` begins a second setup beside the first.

`ImplementsLease` maps the detail to `SlotLease` (`owner <- slotRun`, `users <-`
the runs with a live process on the slot).

### RunLifecycle

| state | code |
|---|---|
| `run[r]` | the record of a run and its entries in the orchestrator's maps: `status`, `inbound`, `active` (`activeTurns`), `handle`, `lease` (the worker's lease on disk, which outlives the handle), `beat` (`heartbeats`), `setup` (`preparing`); and history: `sent`, `answered`, `dropped`, and three fields of what properties except, `doubted` (put back by a recovery although a worker that survived had it), `crowded` (polled together, or over a remembered turn) and `split` (a worker was started beside an orphan) |
| `calls` | every asynchronous function that waits, as a record of where it waits (`setup`, `install`, `attach...`, `bind`, `clone`, `persistIdle`, `stop...`) |
| `starter` | `tryStartQueued`: the mutex `startingQueued` and the list it loops over |
| `held` | the runs bound to a slot; the slot's insides are `VmSlots`' business |
| `releasing` | `releasingIdle` |
| `procs`, `exits` | worker processes with the batch they polled, the message they work on and whether they were spawned, adopted at a restart or left as orphans; dead ones whose exit hook has not run yet |

`tryStartQueued` runs up to its first await in the turn of its caller, and an
await of something that is already there goes on before any other event; the
guard `Busy` gives these steps their precedence in `Next`.

After a restart `recoverLiveWorkers` adopts the worker that a run's lease names, if the run's
status is live. Whether its turn is put back into the inbox is `adoptedTurnLooksAbandoned`,
which reads the event log alone: a turn that was silent for 20 s after a message or tool
call was closed counts as abandoned, also when the model is thinking. `Recovered` therefore
replays or does not, whatever the worker is doing.

`Timing`, `Features` and `Faults` choose the environment of a run of TLC: when
users send follow-ups, which parts of the system are used (idle release, Stop,
archive, repositories that have to be cloned, waits that outlast a tick of the
lease watch, workers slower than a heartbeat timeout) and what may fail. They
restrict the environment, never a handler of the code.

Abstractions: the text of a message is its number; `SETUP_ERROR` is the status
`ERROR` with a message that `isSetupFailureMessage` recognises; a heartbeat is
fresh or absent; a record is on disk at the end of the turn that changed it
(`flushRun` is synchronous), except that ARCHIVED is not on disk before
`archiveRun` ends.

### LoopTurn

| state | code |
|---|---|
| `cp` | the run's record and the orchestrator's maps for it: `status`, `handle` (`handles`), `beat` (`heartbeats`), `pending` (`pendingLoopStarts`, one message), `queue` (`pendingFollowUps`), `starting` (`startingLoopTurns`), `cur` (`run.currentTurnId`), `mail` (an abort in `inbound`) |
| `turns` | every turn that was dispatched, in that order, with the place where `runTurn` waits (`pc`), how it ends, whether it was aborted, and its unread steers |
| `signals` | POSTs of aborts and steers on their way to neo-loop, in no order |
| `worker`, `offer` | the tools worker; an assignment that the desk has not acted on |
| `gone`, `hit` | histories: messages that went another way than through a turn, mishaps that happened |

A turn is named by its place in `turns`. Its life: `sent` (the POST is under way)
or `refused`, `ensure` (`waitReady`), `start` (agent.start), `infer`, `final`
(the answer is there, the session is being saved), `complete` (the turn-complete
call is under way), `answer` (its reply is), `done`. `Complete` is
`completeLoopTurn` as a whole: `applyTurnComplete`, `agent.end`, and the take of the
next message up to the fetch of `dispatchTurn`. It may come before `PostReturns`,
the 202 of its own turn (feature `tardy`); only a turn that ends at once can do so.

`Features` are steers, offers that reach the desk twice, workers that leave, and
tardy answers; `Faults` are dispatches that neo-loop refuses, turn-complete requests
or replies that get lost, a failing gateway, a worker that is not ready in 15 s, a
worker that crashes, and a desk that rejects the run.

A dispatch that neo-loop refuses uses its message up and leaves `currentTurnId` set
(`client.ts:90`); later messages queue behind a turn that does not exist. The
model does the same.

`ImplementsLedger` maps the detail to `MessageLedger`: the pending start and the queue are
`waiting`, the messages of the turns at work and of the others are `working` and `over`, and
the histories `gone.steered` and `gone.given` are `steered` and `givenUp`. The ledger's two
promises that a mishap may end are tied to `hit`: nothing is overwritten (`keeping`) until a
turn-complete is lost, and turns go by the order of sending (`orderly`) until one of the
four mishaps of `InOrder`. What no mishap ends is the rest: one message is worked on at a
time, only one that waited is taken up, and none that is over, was steered or was given up
comes back.

Left out: runs of this kernel with a worker in the cloud, `waiting_for_background`
(no code sends it), restarts (the pending start and the queue are in memory only),
archive, hand-off, and the session's contents.

### DeskHost

| state | code |
|---|---|
| `offers`, `waiters`, `inbox` | the three maps of `desks/store.ts` for this desk; a sink or a waiter whose connection broke stays there until the store notices |
| `desk[r]` | the record of a run, its handle, how many messages wait for its worker, and whether it has a remembered turn (`activeTurns`) |
| `lease`, `posts` | the desk's lease loop (an open poll, or the answer to one), and its requests on the way |
| `hosted`, `startingHere`, `starts` | `localRuns` (no entry, reserved, or the child), the runs this window starts, and the calls of `startAssignment` with the place where each waits |
| `procs` | worker processes: polling, in a turn, leaving |
| `tale` | history: what users and the network did; `dropped`: runs whose entry was taken away by a Stop, a cancel, a retirement or a failed start; `reaped`: a start waited for a reap |

`startAssignment` reserves its place and goes on through two or three awaits, so
offers on the stream, on the lease poll and from the window overlap with it.
`WorkerExits` deletes the run's entry, not its own: that is the exit handler of
`watchLocalWorker` as it is written. `Retire` and `StartFails` do the same.
A worker may crash at any moment (`WorkerCrashes`): its release carries an exit code other
than 0, and fails the run if it was RUNNING. `Expire` looks only at the age of the last
heartbeat, so it also finds living workers that are late; it puts the interrupted message back
(`Requeued`) and offers the run again.

Left out: the `error` event of a child that never came up, experts and folders
(preparing succeeds or fails), several windows, and transfer to another desk.

### ToolsChannel

| state | code |
|---|---|
| `turn` | `runTurn`: where it is, the plan of the batch, the repeat state, the answers of earlier calls (`prior`), rounds, `aborted` |
| `calls` | every request to the worker with its outcome; its place is its id |
| `hub` | the `Connection` of the run: socket, `ready`, `pending` |
| `sockets` | both ends of every connection, and the frames on it; each end notices the other's end in its own time |
| `children`, `tools` | child processes of `exec`, whether the worker was stopped, and what it executed |

A signature belongs to one of five sets (`Reads`, `Greps`, `Bashes`, `Sleeps`,
`Edits`), which say what tool it is of; that is all `runToolBatch` looks at. An
edit is a download and an upload. `PlanReply` is the planning loop as a fold.
Left out: output limits, chunks of a file (one request each), steers (`LoopTurn`).

### EventStream

An event is its number in the log; in memory and on the wire an item `[from, to]`
carries the events `from..to` under the id `to`, as a folded run of deltas does.
`log` is what is persisted, `hot` the history in memory, `saved` the compiled
transcript on disk, `reader` the client with its snapshot, `lastEventIdRef`
(`last`), applied cursor, applied ids and its poll. `Connects` has both ways back: the
browser's own retry with `last-event-id`, and `listen` with `after=`. `past` notes
what the properties except: a cursor that was folded away, a polled snapshot that
replaced what the stream had brought, one older than that, an event after archive.

### Workspaces

| state | code |
|---|---|
| `files[r]` | the run: `status`, `step` (where `createRun` waits), `wake` (where `resumeRun` waits), `leave` (release, archive, stop, exit), its host directory `dir` and its meta file, its slot `mount`, `handle`, whether a message waits, and whether an agent's work exists or went unsaved (`worked`) |
| `builds` | captures in the order they began, those that succeeded, what each snapshot holds |
| `pool` | `warm-pool.json`, the warm directories, and the refills under way with the index each of them *read* |
| `fate` | history: a start that met another one or a write-back (`clash`), a follow-up, Stop or archive during setup (`early`), a worker that started on no checkout (`blank`) |

A place is `none`, `bare` (a directory without checkout), `filling` or `saving` (a
copy is under way), `part`, `whole`, or `work`. `Evictions` is `reclaimPersistedWorkspaces`: any
set of runs whose time is up, then the lowest tiers until the rest fits the budget.
A write-back may fail anywhere. An idle release then keeps its worker, `archiveRun` goes on
to evict and to stop the worker, and at a worker's exit the slot is given up all the same,
since `persistAndRelease` does not look at the result (`SlotReleased`): that work is `unsaved`.
A warm copy is made under a name that nothing refers to any more (`NewCopy`; the code draws
a random one).
`Small` in `MCServices` lets a second run in only while no follow-up was sent and
no run failed.

Left out: several repositories per run, remote archives, and sizes (a workspace
counts one against the budget).

### Automations, Subscriptions

`Automations`: `autos` is `automations.json`, `ticks` the calls of
`fireDueAutomations` that have not returned, each with the list it copied and the
`createRun` it awaits; `fired` the runs they made, `clock` counts ticks' time.
`Loop` is the code from one `createRun` to the next; the copied list is a set that is gone
through in the order of the ids (`NextOf`). `Every` is 1 or 2 units.

`Subscriptions`: `subs` are the subscriptions of a run with their counts and last
delivery key, `owner` the run's record, `hooks` the webhook calls that wait in
`enqueueFollowUp`, `mail` what GitHub has delivered. An event says which pull
request and which branch it names, the run's own or another; `HookLoop` is the loop from one
await to the next. Signatures, payloads and texts are left out.

### Persistence

| state | code |
|---|---|
| `memory` | the run in `runs`, `followUps`, `inbound` and `activeTurns`, or nowhere |
| `disk` | `<run>.json`, `<run>.queue.json` and the pictures under the run's inbox prefix |
| `rows`, `saves` | the rows in `runs` and `run_queues`; queries of the persist hooks that have not been answered, each at its first or second statement |
| `archive`, `due`, `copies` | the objects, the timer of `scheduleArchive`, and calls of `archiveRunArtifacts` with what they read and how far they are |
| `loads` | `loadRunIntoMemory` waiting for the database, `restoreArchivedRun` for the objects |
| `storePast` | history: messages that wait (`waiting`), messages whose flush was cut short (`torn`), mishaps (`hit`) |

Every handler is its whole flush: `FilesAfter` has the four steps of
`persistRunRecord` (pictures, removal of what nobody names, queue, record), and
`Flushes` either takes all of them or dies after any. `Starts` is `hydrateFromStore`
followed by the reload from files. A message is its number and its picture's; the
queue keeps which messages have one. `turnPic` is the picture under the one file name that
active turns share, so it may be another turn's.

Left out: transcripts and session files, worker leases, old record versions and their
backfill; Postgres and MySQL are one database.

### RateLimits

| state | code |
|---|---|
| `buckets`, `inflight` | the maps of both `rate-limit.ts` files: tokens with the time they were counted, leases that are out |
| `chats` | requests in the gateway, by what they wait for: their body, the upstream, the end of a stream |
| `cache` | expiry of one step's answer in `step-cache.ts` |
| `windows`, `asks` | Redis's counts, and API requests that wait for it with the time they came |
| `viewers` | requests for an event stream, waiting for the run or open, and whether their client left |

Tokens are counted in parts of `1/Window`, so that a refill is a whole number; the code
divides floating-point numbers, and its `retryAfterMs` may be a millisecond off
for that reason. A limit of 0 (unlimited) is left out. Of the API's policies there is one;
all of them go through `consumeRateLimit`.

### Services

The eight components share no variable with each other (each has its own view of a
run's record, which `RunLifecycle` models in full). A behaviour of `Services`
exercises one of them, chosen in the initial state, and leaves the others as they
started. What holds in it of each component holds in any interleaving of them,
since none reads or writes another's variables. It is a frame to check several
components in one run, not a claim about how they interact; where they do
interact is in the components: the orchestrator's part of desk runs in `DeskHost`, the
turn in `ToolsChannel`, `createRun` and the release of slots in `Workspaces`.

## 3. Runs

"pass" runs must be finished without an error; for each property of such a run
`PROJECT.json` names a plausible slip in the code (a mutant) that makes the run
fail. "violation" runs show that the code does not do what its documentation or
comments say.

### Runs that pass

| run | instance | what it shows |
|---|---|---|
| `VmSlotsExit` | 3 runs, 2 slots, 2 setups each, 2 edits, failing mounts, restores and write-backs, expiries of runs without a worker, workers that exit by themselves (1.12 million states); setups do not overlap (`Overlaps = {}`) | all safety properties of the slots and the refinement of `SlotLease`, through every interleaving of provision, write-back and reconciliation |
| `VmSlotsLive` | 2 runs, 1 slot, 1 setup each, 1 restart, stop requests, setups that outlast the heartbeat timeout, failing mounts, fair | a slot comes back |
| `LifecycleQuiet` | 2 runs, 1 slot, 3 messages each, users who wait for their turns, idle release, every fault but the clone's | one starter of queued runs, no handle without a process, one worker per run |
| `LifecycleRestart` | 1 run, 1 slot, 3 messages, also sent while a worker has one, 3 spawns, 3 calls, 2 restarts, failing setups, provisions, mounts, boots and workers, lost replies to polls (435 904 states) | one worker, no message lost or answered twice, over restarts and replays |
| `LifecycleAny` | 1 run, 2 messages, every feature and fault, users who act at any time | nobody is left in `preparing` |
| `LifecycleLive` | 3 runs, 1 slot, worker crashes, idle release, fair | a queued run starts, a message is served |
| `LoopTurnAny` | 3 messages, 1 Stop, tardy answers, 1 lost turn-complete call, refused dispatches | one turn at a time; no message run twice; none overwritten and all in order; the refinement of `MessageLedger` |
| `LoopTurnLive` | 2 messages, 1 Stop, steers, double offers, every other fault, fair | a message that waits gets its turn |
| `Services` | desk: 2 runs, limit 1, 2 messages, 2 workers, 1 Stop and 1 broken connection, crash, late heartbeat or failing start; tools: 3 calls of `read` and `bash`, 2 connections, wrap-up after 2 rounds; stream: 3 events, 1 break; store: 2 messages with pictures, 1 death, 2 loads, 2 saves at once, every fault | one worker per run and no more than the limit on a desk; no command beside another on the same files; a repeated call gets its answer and is not run; no token is shown twice, none is missing; no accepted message and no picture of a waiting one is lost, a deleted run stays deleted |
| `Platform` | files: 2 runs, 1 slot, 1 warm copy per build, 2 copies, budget of 1, follow-up, every fault, write-backs included; automations: 2, 2 ticks, 3 runs, 1 edit or crash; subscriptions: 2 deliveries, 3 calls, pushes, archive, failing follow-ups; limits: 2 runs, 3 model calls or 4 API requests or 2 streams over 4 ms, windows of 3 ms; the smallest instances of the others | types of all services; no work is emptied under a write-back, nor lost with one that failed before its worker was stopped; builds and warm copies are whole; a due time fires once; a delivery wakes once, within the limits; every lease is given back, no key gets more than its budget |
| `ServicesLive` | desk: 1 run, 2 messages, 3 workers, 1 broken connection, crash in the middle of a turn, late heartbeat or release that arrives twice; tools: 2 calls of `grep` and `edit`, 2 connections; stream: 3 events, 1 break; fair | a message to a desk is read or its run fails; a turn ends; a reader catches up |

Bounds. One slot with two runs is the smallest system in which runs compete, and
three runs let one be overtaken; a worker that is replaced, whose old
process's clean-up is still under way, needs two spawns per run; a message that
is queued behind another needs two. `MaxCalls` bounds calls of one run that wait
at once: two give every overlapping pair. Spawns, restarts, edits and messages
are counters that nothing in the code bounds, hence `MaxSpawn`, `MaxRestarts`,
`MaxEdits`, `MaxMsgs`. `CHECK_DEADLOCK` is off in every run because the system
stops when these are used up and every run is archived, idle or in error.
`VmSlotsExit` uses the symmetry of runs, which are interchangeable there; in
`RunLifecycle` they are not (the queue goes by age). Three messages are what it
takes for `LoopTurn` to hold one in a turn, one as the pending start and one in the
queue; a lost completion is sent again from the catch block, so one loss makes the
second completion of a turn that is over.

On a desk two runs with room for one are the least that compete for a place, and a
worker that is followed by another of the same run needs two processes (three when
both messages come after it). `MaxStarts` is 2: two offers of a run, or two runs, in
`startAssignment` at once. Three tool calls give a call, its repeat and the third that
stops the turn, or two side by side and one after; two connections one that is
replaced. Three events are two deltas and the end that folds them, the least at which a
cursor is lost. Two copies and one refill let a copy be claimed while the
next one is made; two jobs let one restore what the other captured, and one be evicted
for the other's sake. Two ticks overlap; a third run shows a due time fired twice by
neighbours. Three calls give a repeat of a delivery that overlaps both the first call
and another delivery. The constraint `Small` keeps Stop, broken connections and
successors of workers to one message, a second tools connection to two calls, and
follow-ups and failed setups to one run: the cases one would multiply with are met in
the same run without them. `RunSymmetry` permutes runs that are only compared.

Two messages give one at the worker and one that waits; one death is enough for a flush
that is cut short and a start from what it left; two loads let one restore come
while the other has read. Two saves at once are the least that can overtake. Behaviours
of the store with a mishap that its properties except end there (`Small`): nothing more
is claimed of them. Windows of 3 ms over 4 ms have a boundary between
windows, and refills of 1, 2 and 3 parts that do not add up to whole tokens. Calls, API
requests and streams share no key, so a behaviour has one of the three.

Provisos. Some properties of these modules name histories they except: an entry of
`localRuns` that was taken away (`HostOneWorker`, `HostLimit`), a second tick that has the
automation in hand (`FiresOnce`), a start and a write-back or a setup of one run at a time
(`WorkKept`, `CleanBuilds`) and work given up with its slot (`WorkKept`), an edit whose own
write-back failed (`NoLostFiles`), a worker started beside an orphan (`OneWorker`,
`NoLostMessage`, `AnsweredOnce`), messages that one poll took together or over a remembered
turn (`NoLostMessage`), a turn that a recovery put back although its worker had survived
(`AnsweredOnce`), a
cursor that was folded away or a polled snapshot (`StoryWhole`, `StoryOnce`), a save that
failed, was overtaken or died with the process, a disk lost before it was copied, a run
loaded over itself and a flush cut short (`NothingForgotten`, `PicturesKept`,
`StaysDeleted`), a clock set back (`RateHolds`). Each is a real
case in which the code does not keep the property; the same formula without the
proviso is beside it (`...Always`) and fails, as the table of counterexamples says. With
it, the mutants show that the rest of the statement still depends on the code.

`hit` keeps the properties of `LoopTurn` honest about what they promise. `OneTurn` and
`RunsOnce` hold whatever happens. `Kept` fails only if a turn-complete is lost.
`InOrder` lets a failed turn, a lost call, a completion that overtook its 202 and a
claim with nothing to start leave older messages in the queue, where newer ones
pass them. `Served` promises nothing after any mishap: the code
gives no guarantee then (`LoopTurnWedge`).
`OneTurn` is the comment at `orchestrator.ts:206`: "Two claims or a follow-up must
not start a second turn."
In `LoopTurnAny` workers do not leave by themselves, since with them the refinement takes
several minutes to check; `LoopTurnLive` has them, and the theorems of `LoopTurn_proofs` hold for
every choice of features.

When users send follow-ups is `Timing`. `LifecycleQuiet` has users who wait until their last
turn was answered or given up and nothing is going on (`"patient"`); `"quiet"` users wait only
until the run is IDLE or in error, no message is unread and no call or exit is under way.
`LifecycleRestart` has those, and they also write while the run has a worker and no call is
under way (`"attached"`): into the inbox of a worker in the middle of a turn, so that a poll takes
several messages and a remembered turn is overwritten. With idle release and users
of that kind, or with users who write at any time, `OneWorker` fails in the code
(`LifecycleRelease`, `LifecycleAny` with `OneWorker`), which is why these three runs differ.

`LifecycleRestart` has one run, so that three messages, two restarts and every fault fit into
one check. Larger instances, too long for a run of the project, pass as well: two
runs, 1 restart, 2 messages, 3 spawns and all five faults (3.9 million states); two runs, 2
restarts, 2 messages, 2 spawns and crashes (10.7 million); the same with `"quiet"` users and
idle release (10.3 million).

### Runs that find a disagreement

| run | property | what happens |
|---|---|---|
| `LifecycleRelease` | `OneWorker` | a follow-up during an idle release starts the run twice |

`findings` in `PROJECT.json` quotes the line that says otherwise.

### Further configurations that end in a counterexample

They are kept as reproductions (`tlc -config <name>.cfg <MC module>`) and are
not among the project's runs. Where the table names a run of `MCServices`, the
configuration is that run's with the property in place of those it has.

| configuration | property | what happens | what says otherwise |
|---|---|---|---|
| `VmSlotsStop` | `SlotExclusive` | `destroy()` and the exit hook both release the slot; the slower umount (`vm-slots.ts:290`) marks it idle under its next owner, and two runs share a mount | `docs/architecture.md:16`, "每个 Run 独占一台短暂 VM" (each run has a machine of its own) |
| `VmSlotsSlow` | `SlotExclusive` | a follow-up's mount or restore outlasts the heartbeat timeout; `expireStaleWorkers` (`orchestrator.ts:643`) queues its run, the reconciler frees the slot under the setup, another run claims it, and both workers are spawned there | `docs/architecture.md:16`, as above |
| `VmSlotsAgain` | `SlotExclusive` | a follow-up starts a run that is PROVISIONING a second time (`resumeRun`, `orchestrator.ts:1718-1757`); the second setup's worker exits and frees the slot while the first one still mounts it, and another run claims it | `docs/architecture.md:16`, as above |
| `VmSlotsFault` | `NoLostFilesAlways` | a failed write-back is a value nobody looks at (`vm.ts:31`): the slot is wiped and the edits are gone | `README.md:126`, "写回失败则留下槽" (a failed write-back keeps the slot) |
| `LifecycleArchive` | `ArchivedFinal` | a run archived during its setup becomes RUNNING again (`orchestrator.ts:1599`) | `docs/architecture.md:176`, "ARCHIVED / EXPIRED 释放计算" (an archived run releases its compute) |
| `VmSlotsRestart` | `UmountSparesWorkers` | after a restart the slot table is empty and the reconciler unmounts the slot of an adopted, living worker | `vm-slots.ts:243`, "Drop leftover mounts / busy marks whose run is gone or no longer live" |
| `LifecycleAdopt` | `OneWorkerAlways` | the worker of an IDLE run survives a restart unknown to the control plane; a follow-up starts another | `docs/architecture.md:173`, "不要另起一个 Agent 进程" (do not start another agent process) |
| `LifecycleWakeup` | `QueuedStarts` | a provision that fails frees its slot without waking the queue | `orchestrator.ts:669`, "空出来会自动开始" (starts by itself when one is free) |
| `LifecycleTurn` | `IdleSparesTurns` | an idle release stops a worker that has started a turn meanwhile | `docs/desk-project-design.md:856` (released only when the run is IDLE) |
| `LifecycleStale` | `FreshWorkerServes` | the shutdown item of a release stops the worker of the next follow-up | `docs/desk-project-design.md:876`, "发跟进再排队占槽" (a follow-up queues for a slot again) |
| `LifecycleStuck` | `MessageServed` | a worker released between poll and `agent.start` takes the message with it, without an error | `docs/architecture.md:175`, "有跟进再占槽恢复" (a follow-up takes a slot again and goes on) |
| `LifecycleReplay` | `AnsweredOnceAlways` | an adopted worker is thinking after a tool call; its log has been silent for 20 s with everything closed, so its turn is put back into the inbox, and answered once more (`orchestrator.ts:451`) | the comment at `orchestrator.ts:449`: "replaying a live turn would answer twice" |
| `LifecycleSwallowed` | `NoLostMessageAlways` | a worker polls message 2 and dies before it reports `agent.start`: the run stays IDLE, the user writes message 3, and its poll overwrites the remembered turn (`orchestrator.ts:404`): message 2 is neither answered, replayed nor given up | nothing: `requeueActiveTurn` has room for one message |
| `LoopTurnSteer` | `SteerHeard` | a steer that arrives after the last inference of its turn was accepted and is dropped with the turn | `docs/agentscope-java-loop-design.md:465`, a steer signals the current turn, which goes on with it |
| `LoopTurnWedge` | `AlwaysServed` | the worker leaves with two messages queued; the next turn fails for want of it and the other message stays in the queue: later claims start only `pendingLoopStarts` and set the run RUNNING without a turn, release after release | `docs/agentscope-java-loop-design.md:318`, a queued follow-up is dispatched after turn-complete |
| `LifecycleLostPoll` | `MessageServed` | a poll whose reply is lost at a quick restart is never replayed | nothing: a gap, no contradiction |
| `Services` | `HostLimitAlways` | a worker is stopped and its run starts again; the old process's exit handler deletes the new reservation (`host.ts:637`), and another run passes the limit | `docs/desk.md:196`, "唯一的硬限制是「同时最多几条」" (the only hard limit is how many at once), and the comment at `host.ts:570` |
| `Services` | `StartHasWork` | a stale offer (the message was read meanwhile) starts a worker that has nothing to do | nothing: a waste, no contradiction |
| `Services` | `ReplaysAnswer` | a repeated call is answered with the failure of the channel that its first one got (`turn.ts:274`) | nothing: the guard does not look at the outcome |
| `Services` | `StoryWholeAlways` | a reader comes back with the id of a delta that was folded away; it gets no replay and the next event leaves a hole (`bus.ts:122`), until a poll finds the stream quiet | nothing: the comment at `bus.ts:120` says why no replay is sent |
| `Services` | `StoryOnceAlways` | a poll shows a snapshot while the stream is broken; the browser's own retry replays deltas that are in it, and the text is there twice | `bus.ts:120`, replaying appends the story again |
| `Services` | `ArchiveReadsLog` | an event that comes after `dropHistory` makes a history of one, which hides the log on disk (`bus.ts:105`) | `bus.ts:105`, "archived / evicted runs read the persisted log" |
| `ServicesLive` | `CaughtUpAlways` | the hole of `StoryWholeAlways` stays: when the ids agree the poll fetches nothing | nothing |
| `Services` | `NothingForgottenAlways` | a message is on disk and its save is under way when the process dies; at the next start the older row is written over the files (`platform.ts:215`) | nothing: `docs/desk-project-design.md:889` calls the database's copy the authoritative one |
| `Services`, with `Parts = {"store"}` and without the constraint | `StaysDeletedAlways` | the same after a deletion: the row says archived, and the run is back | `docs/core-features.md:86`, "软删，列表不再出现" (deleted, not in the list again) |
| `Services` | `PicturesKeptAlways` | a hand-out's flush removes the picture and dies before the queue is replaced: the message waits without it (`persist.ts:140`) | nothing |
| `Services` | `OwnPictureAlways` | a flush writes the new turn's picture under the name of the old one's and dies before the queue is replaced: the old turn is replayed with it | nothing |
| `Platform` | `LeasesCountedAlways` | a client leaves while `requireRun` is awaited: its stream's lease is taken after "close" was emitted and never given back (`api/server.ts:2301`) | `rate-limit.test.ts`: "SSE concurrency leases release so the next subscriber can attach" |
| `Platform` | `RateHoldsAlways` | two API requests wait for Redis; it fails for the later one first, and the earlier one sets the bucket's clock back | nothing |
| `Platform` | `WorkKeptAlways` | a follow-up during setup starts a worker on the half clone; its write-back and the clone then fill the same directory | nothing |
| `Platform` | `WorkSaved` | the write-back at a worker's exit fails and the slot is wiped (`vm.ts:31`) | `README.md:126`, "写回失败则留下槽" (a failed write-back keeps the slot) |
| `Platform` | `CleanBuildsAlways` | a run that is archived during its setup loses its protection, another write-back's eviction empties the directory, and the capture of the emptied tree succeeds as the newest build (`orchestrator.ts:733`) | nothing |
| `Platform` | `StartsWhole` | `tryStartQueued` starts an evicted run without looking at its checkout, on an empty directory (`orchestrator.ts:699`) | `docs/workspace-persistence.md`: a run whose copy was evicted clones again |
| `Platform`, with `MaxRefills = 2` | `CopiesTracked` | two refills each write the index they read: a finished copy is in none | nothing |
| `Platform` | `FiresOnceAlways` | a second tick fires an automation again while the first awaits `createRun` (`runner.ts:20`) | nothing |
| `Platform` | `RepairsBounded` | the count is kept per subscription, and a run may have two for its branch and its pull request | `docs/architecture-overview.md:488`, "CI 失败默认 autofix（最多 3 次）" (at most three) |
| `Platform` | `HumansTakeOver` | a user's follow-up arrives while the webhook's own waits for the account | `docs/architecture-overview.md:596`, "人跟进或人 push 分支后停 autofix" (stops once a human follows up) |

## 4. Fairness

`VmSlots`: the lease watch looks for stale runs and reconciles every 2 s (`WF` of `Expire`
per run and of `Reconcile` per slot), and `cp` and `umount` are finite commands (`WF` of the ends of a teardown, per
slot). Nothing is assumed of provisions, workers, users or faults.

`RunLifecycle`: every awaited call ends; a worker goes on polling and ends its
turns, and a process that got SIGTERM dies (SIGKILL follows after 3 s); an exit
hook reports; the lease watch ticks, so an idle worker is released, a
heartbeat ages, a slot is reconciled. Fairness is per run, so that one run's
activity cannot stand in for another's. Users, crashes, failures, archive and
Stop are never fair: the liveness properties hold though nobody presses a button.

`LoopTurn`: neo-loop answers the POST and reports the end of a turn; `waitReady` ends
after 15 s one way or the other; an inference ends and a turn ends with it, if need
be in the wrap-up round after 40 rounds; the desk takes its assignments, an aborted
worker exits, and the desk reports workers that left. Fairness is per turn. Users,
workers that leave by themselves, late heartbeats and faults are not fair.

`Services`: on a desk, what is on the stream, the lease poll or in a request arrives or
is answered, the loop polls again and the stream reconnects, `startAssignment` goes on,
the lost-heartbeat check runs, and processes run: `DeskFairness`, per run and per
process where one could starve another. Users, failing starts, broken connections and
waiters' timers are not fair. The turn: its own code runs on, the model answers in the
end, and the timer of a request fires (`ToolsFairness`); nothing is assumed of the
worker or its connection. The reader: the network delivers what is sent, and the
poll's timer fires next to the stream (`StreamFairness`); events, breaks, restarts and
archive are not fair. Files, automations, subscriptions, stores and limits have no
liveness property.

## 5. Proofs

All theorems hold for every set of runs, every slot count the code accepts (1 to
4), every choice of features and faults, and every value of the bounds; all that is assumed of the
constants are the named assumptions of the modules (that limits and bounds are numbers, that
names are apart), except where a theorem says more.

In `VmSlots_proofs`:

* `TypeCorrect`: `Spec => []TypeOK`. (The types of the three proved modules are
  proved only; no run repeats them.) Inductive as it stands: a setup has the number of the
  process it will start from the beginning.
* `BoundOnce`: `Spec => []SlotBoundOnce` (no run repeats it either), with stop requests,
  overlapping setups, restarts and faults.
  Only a claim binds a slot to a run (`OnlyClaimsBind`), and it looks first for the
  slot the run has already.
* `QuietExclusive`: with no stop request, no restart, no second setup of a run and none that
  outlasts the heartbeat timeout without createRun's mark
  (`Quiet == ~StopRequests /\ MaxRestarts = 0 /\ Overlaps = {}`), `SlotExclusive` and
  `WorkerKeepsSlot` always hold. Each part is needed: `VmSlotsStop`, `VmSlotsRestart`,
  `VmSlotsAgain` and `VmSlotsSlow` refute the conclusion without it. `QuietInv` has five parts:
  a run has at most one process, with a handle and the slot it runs on (`WorkerInv`); a
  setup holds the slot it waits for, and its run is live, with neither handle nor process
  (`SetupInv`); a waiting teardown belongs to a slot still bound to its run, with no process
  there, at most one per run (`TeardownInv`); a run with a handle is live or idle, so that the
  reconciler, which goes by the status, takes no slot of a worker or a setup (`StatusInv`);
  and a mounted slot is bound to a run (`MountInv`).
* `LeaseRefined`: under the same assumption `Spec => Lease!LeaseSpec`. Every step
  of `VmSlots` is a step of `SlotLease` or leaves its variables alone
  (`LeaseStutter`, `LeaseBack`, `FreeNowOne`, `LeaseStep`).
* `SlotKept`, `OwnFiles`, `FilesSaved`: under the same assumption `WorkerKeepsSlot`,
  `DurableIsOwn` and `NoLostFiles`, also when copies fail: what `NoLostFiles` excepts is
  the one edit whose own write-back failed. The invariant of the files (`FilesInv`) says which tree is `Current`: the slot's while a
  worker runs on it or its write-back is copying, the durable copy otherwise. It rests on
  `OneUse`, which reads off the quiet invariant that a slot has one worker, one teardown or
  one setup at a time.

In `RunLifecycle_proofs`, with users, faults, restarts and idle releases at any
time (no environment is left out):

* `TypeCorrect`: `Spec => []TypeOK`. The strengthening is `AttachNumbered`: the
  process that a waiting `attachWorker` will start has a number, or the handle it
  leaves would name nothing.
* `StarterAlone`: `Spec => []OneStarter`, the mutex `startingQueued`. Most steps
  change no start of a queued run and do not move the loop in or out of its wait
  (`KeepsStarts`); the four that do (`StartNext`, the two ends of `attachWorker`,
  a restart) are in `QueueKeeps`, `AttachStepKeeps` and `RestartKeeps`. `OneStarter`
  is inductive once the types are known, because its second half says that a loop
  that goes on is not waiting.
* `SetupOwned`: `Spec => []SetupHasOwner`. No step ends the call that owns a mark
  without taking the mark away or handing it to a new call (`KeepsOwners`, one lemma
  per group of actions).

About workers and messages the same module has four theorems, for every number of runs,
slots and messages, every failure of setup, start and workers, and the queue. They assume
`Quiet`: either users who wait for the conversation to be quiet, and idle release, or users who
also write while the run has a worker, and no idle release. Late heartbeats of living workers,
posts that outlast a tick of the lease watch, repositories to be cloned again, Stop, archive
and restarts are left out, because TLC finds two workers of one run in the code under
each of them (`LifecycleRelease`, `LifecycleAdopt` and `LifecycleAny` show some; with Stop or
repositories it takes two runs): that is a limit of the code, not of the proof. What the theorems add to the runs
`LifecycleQuiet` and `LifecycleRestart` is that the number of runs, messages and workers
does not matter.

* `WorkerAlone`: `Spec => []OneWorker`.
* `HandleTrue`: `Spec => []HandleTruth`.
* `NoSecondAnswer`: `Spec => []AnsweredOnce`, if users do not write to a working run
  (`Timing # "attached"`).
* `NothingMislaid`: `Spec => []NoLostMessage`, if users wait for their turn
  (`Timing = "patient"`; `LifecycleSwallowed` for less patient ones).

Without restarts the provisos of these properties are not needed: `WorkerAlone`,
`NoSecondAnswer` and `NothingMislaid` prove the `...Always` forms too.

They share one invariant, `ConvInv`, which says of each run what an `await` of the code may
rely on when it returns: `Fits` (one call, one worker or one exit at a time; the worker is
the handle's or the one `failRun` stops; a call that prepares a run finds neither handle
nor process), `Told` (only the newest message is in the inbox, what a worker holds is the
remembered turn, and an answered turn is not remembered; claimed only of users who do not
write to a working run), `Counted` (every message but the
newest is over) and `Listed`/`Placed` (a run in the starter's list has nothing under way,
and no message is being posted while the starter runs, but to a run that has a worker: there
it just joins the inbox, `Beside`). These are predicates on a record
and the sets of its calls, processes and exits. A step is described once, by the record and
sets it leaves (`StepOf`), and `Frame` carries the rest of the system; what is left to
prove of an action is about one run and no primed variable.

In `LoopTurn_proofs`, for every number of messages, stops and lost calls, and every
choice of features and faults; `BoundsAssumption` and `NamesAssumption` are the only
assumptions:

* `TypeCorrect`: `Spec => []TypeOK`.
* `OneTurnOnly`: `Spec => []OneTurn`. A turn at work is the current one
  (`WorkIsCurrent`): `startPendingLoopTurn` dispatches only if there is none, and the
  completion of another turn does not clear it.
* `EachRunsOnce`: `Spec => []RunsOnce`. `OnePlace` says that a message is in one place
  at most: pending, queued or in a turn; a second completion of a turn finds its
  message in none of the places that a dispatch takes from.
* `NoneOverwritten`: `Spec => []Kept`. Without a lost call, a turn about to be completed
  is current (`EndIsCurrent`), and nothing is pending while a turn is current or being
  dispatched (`BusyIsClear`): the message that its completion takes from the queue
  replaces no other.
* `RunInOrder`: `Spec => []InOrder`. `ByAge` orders turns, pending start and queue at
  once; it needs `Attended` (a queue always has a start or a turn before it), or a new
  message could pass an old one.

* `LedgerImplemented`: `Spec => ImplementsLedger`. Every step is a step of `MessageLedger` or
  leaves its variables alone. A ledger step may send a message, begin one and give some up all
  at once, since `completeLoopTurn` and `enqueueFollowUp` do several of these in one go.
  `LedgerMoves` says what a step must do to the waiting, the working and the ended messages to
  be one; there is one lemma per action (`ClaimMoves`, `FollowUpMoves`, `CompleteMoves`,
  `GivingUpMoves`, ...), and the dispatch and the take from the queue have their own
  (`StartedMoves` and its neighbours). `IInv` is needed twice: a turn is begun only when none
  is at work because a turn at work is current, and what a promise says of the order of
  starts is `ByAge`.
* `PlacesApart`: `Spec => []Ledger!Apart`. A message is in one place at a time. This is proved
  of the ledger and carried over by the theorem before it.

All parts are one invariant, `IInv`, because each rests on the others. The parts are
predicates on a record and a sequence of turns, so that a step of several moves
(`Complete`: clear the turn, end the agent, take the next, dispatch it) is proved move
by move: `StartedBooks`, `TakenBooks`, `CompletedBooks`, `FailedBooks`. `SameBooks` serves
the steps that leave every message where it is.

In `ToolsChannel_proofs`, for every set of signatures, number of calls and number of
connections, whatever breaks, times out or is stopped:

* `OneHandOnly`: `ToolsSpec => []OneHand`. Three processes know of a call, the turn, the hub
  and the worker, and the invariant `TInv` says how far apart they can be: only calls of
  the group under way wait, and only reads wait together (`Grouped`); one end at the worker
  is open at most, that of the last connection (`SocketEnds`); a call is sent once and not
  answered before it was taken (`Frames`); a command that was not told to end is one whose
  call still waits, or timed out, and when no connection is open there is none (`Commands`).
  That last part is why a connection that fails what was pending (`FailPendingFalls`,
  `NothingRuns`) does not let the next call start beside a command of the old one: `dispose` comes
  before the new dial.
* `RepeatsNotRun`: `ToolsSpec => []RepeatsAnswered`. `TurnKnown` relates the plan, the repeat state
  and the answers of the turn: every step before the next one has an answer, so has the last
  step of the reply before, and the repeat state is at the last step planned. That a plan is
  `Chained` to what came before it, whatever the length of the reply, is an induction over the
  planning loop (`LoopRuns`, `PlanIsLoop`, `CallPlanned`, `ReplyPlanned`). It needs that no
  signature equals the empty one the repeat state starts with (`SignaturesNamed`); in the code a
  signature contains the tool's name and a line break.
* `ToolsTypes`: `ToolsSpec => []ToolsTypeOK`. That the repeat state never counts past three is
  not in the code of the guard: it holds because a plan ends at the call that is stopped and
  the turn ends there (`Bounded`), so nobody asks the guard again.

In `Edges_proofs`, of `DeskHost`, for every set of runs, every limit and every number of processes,
messages and waiting starts, whatever breaks, fails or is stopped:

* `OneHostWorker` and `WithinHostLimit`: `DeskSpec => []HostOneWorker` and
  `DeskSpec => []HostLimit`. The invariant `DInv` says what an entry of `localRuns` stands for
  while it is left alone (`Undisturbed`, `Owned`): for the one process of the run that has
  not gone, or for the one start that will spawn it. The limit rests on that, because a
  worker is spawned into an entry that its start has reserved (`SpawnKept`) and counts
  nobody twice. The provisos of the two properties are where the invariant ends: `Forgotten`
  (a stop, a cancel, a start that failed) takes the entry away under its owner, and a start
  that waited for a reap reserves again without looking whether another start did
  (`RetireKept`). The counterexample of `HostLimitAlways` is of the first kind.
* `DeskTypes`: `DeskSpec => []DeskTypeOK`. A run's inbox stays within the bound on messages
  because it holds no more than were sent (`InboxCounted`): a turn is put back only into an
  empty inbox, and there is a turn to put back only after a message was sent.

In `Edges_proofs`, of `RateLimits`, for all limits, windows, runs and requests:

* `LeasesGivenBack`: `RateSpec => []LeasesCounted`. Leases out are the requests under way,
  by run, by organisation, and the open streams. The gateway's buckets do not matter for
  it; what does is that a request is let in under a number no other one has (`SpareFree`),
  and that each way out of it gives back exactly what was taken (`ChatEnds`,
  `ViewerLeavesKept`).
* `BudgetKept`: `RateSpec => []RateHolds`. The bound on a stretch of time is not inductive:
  `Budget` adds what the bucket holds now, which is at most the burst and what was gained
  since any earlier request, less what was paid since. A request that is let in pays
  (`BudgetAdmitted`), one that is refused pays nothing and moves the clock
  (`BudgetRefused`), both only for a moment that is not before the bucket's, which is what
  `stale` excepts. That the wait a client is told ends in the first millisecond with a
  whole token in the bucket rests on the rounding of `retryAfterMs` (`Rounding`,
  `ToldFirst`) and on `Window <= Full(k)`: a bucket can hold a token.
* `RateTypes`: `RateSpec => []RateTypeOK`. A bucket never goes below nothing or above its burst;
  on top of the invariants of the two theorems above it takes that no bucket and no request is
  of a moment that has not been (`Clocks`).

In `Persistence_proofs`, for every number of messages, crashes and loads, with and without a
database and an object store, whatever order saves, copies and loads end in:

* `NothingIsForgotten`, `PicturesStay` and `DeletedStays`: `StoreSpec => []NothingForgotten`,
  `StoreSpec => []PicturesKept` and `StoreSpec => []StaysDeleted`. The three properties speak of
  memory and files only, and a crash makes something else of them, so the invariant
  `StoreInv` speaks of every place from which the run would be read *next*. While no mishap the
  properties name has happened (`OwedKept`), what is `Owed`, the messages that wait, is in the
  files, in the archive if the files are gone, in what each waiting load has read (`Whence`),
  and in the queue's row once the saves under way have landed (`EndQueue`). The saves land in
  the order they were sent (`InOrder`), a deletion is the last of them, and whatever lands
  before leaves the row marked at the end (`EndsGone`). `PicturesThere` says the same of the
  pictures: those a queue names are among the files that would be read with it (`Pictured`).
  The steps that flush share one lemma for a flush that ends and one for a flush that is cut
  short after any of its four steps (`FlushEnds`, `FlushTorn`), which is where the order of
  `persistRunRecord` (pictures, then the queue that names them) is used.
* `StoreTypes`: `StoreSpec => []StoreTypeOK`: every copy of the run, wherever it is, is one of a
  state it can be in and names only messages that were sent.

In `Workspaces_proofs`, for every number of runs, slots, copies and refills side by side
and every fault:

* `WorkOnSlotOrHost` and `BuildsAreWhole`: `FilesSpec => []WorkKept` and
  `FilesSpec => []CleanBuilds`. `FInv` relates the awaits of one run to its directory and
  slot: `Held` says who may be at work on them at the same time (a setup before its mount has neither slot nor
  handle; a write-back has a slot with files and a directory being filled; a wake-up that clones
  finds no work), and is kept as long as no start meets another (`clash`), write-backs that
  fail included: one at an idle release leaves its worker on the slot, one at an archive leaves
  the slot to the exit that follows, and work that the exit gives up is no longer claimed
  (`worked`); `SetsUp` says that
  a setup which nothing came across is complete when it is captured, and captured once. Both
  speak of one record, so each action is a lemma on a record (`CreateKept`, ...,
  `NoSlotKept`), and `FilesStep` puts the other runs beside it. The pool is judged by every
  index that is on disk *or held by a refill that will write it back*: each offers at most
  `PoolSize` copies even after the refill's own (`InPool`), and a copy being made is in none
  (`NewNames`), so it does not matter which of two refills writes last.
* `FilesTypes`: `FilesSpec => []FilesTypeOK`. That a refill which goes on after an `await` is
  short of one copy at least and of the pool's size at most is `InPool`; that it has no more
  than the fields it began with is `Refills`.

In `Services_proofs`, about the components that `Services` composes:

* `OneRunPerDue`: `AutoSpec => []FiresOnce`, for every number of automations, ticks and edits.
  Each automation that is not excused is either `Idle` (every due time so far is before its
  `next`, and only the run `last` may still work: `Settled`) or in the hands of one tick, which
  copied both (`InHand`); while the tick awaits `createRun` the new run takes the place of
  `last` and the moment of the tick that of `next`. That `next` moves past the due time when
  the tick lets go is `Served`.
* `OneWakePerDelivery`: `HookSpec => []WakesOnce`, for all deliveries, in every order and number,
  and however many webhook calls wait side by side. The wake is counted before the await and
  the follow-up exists after it, so the invariant `HInv` speaks of both: the follow-ups of
  a subscription together with the calls that are about to ask for one are no more than its
  counts (`Accounted`), which stay within the limits; the key of each is the one the
  subscription keeps, or another came between (`KeyKept`); and no two of them have the same
  key unless another came between (`Single`), because a call whose key is the kept one is
  not let in.
* `TokensOnce` and `NoHoles`: `StreamSpec => []StoryOnce` and `StreamSpec => []StoryWhole`, for
  logs of any length, any number of breaks and restarts, and every order of publishing, archive,
  replay, stream and polls. In `SInv` the hot log,
  the archive and the wire are lists of items, each a range of events, that rise and join;
  `Telling` says that such a list is the whole story up to an event. The reader shows
  exactly the events up to some m, and what is on the wire goes on at m + 1 or before
  (`Shows`); for `StoryOnce` it is enough that the wire brings nothing that the reader has by
  its cursor (`Follows`). Neither property is inductive alone, since both speak only of what
  is on the screen. That folding keeps a story whole is an induction over the loop of
  `compactHotEvents` (`OutsExist` and the lemmas after it), made from a least
  counterexample, because the induction theorems of the library cannot be used.
* `AutoTypes`, `HookTypes` and `StreamTypes`: the types of the three. An automation names no run
  beyond those that may be fired, because it names one that was (`OwnRun`, and `RunsNamed` for
  the ticks that wait); a subscription's counts stay within the limits (`Posted` adds what
  GitHub has still to deliver); a reader's cursors and everything it shows are events of the
  log, wherever it had them from (`InLog`).
* `EachPartAlone`: `ServicesSpec` implies the specification of each of its eight components, so
  these theorems, and those of `Edges_proofs`, `ToolsChannel_proofs`, `Workspaces_proofs` and
  `Persistence_proofs`, hold of the system in which the runs check their properties.
* `ServicesTypes`: `ServicesSpec => []ServicesTypeOK`. It follows from `EachPartAlone` and the
  types of each component (`DeskTypes`, `ToolsTypes`, `StreamTypes`, `FilesTypes`, `AutoTypes`,
  `HookTypes`, `StoreTypes`, `RateTypes`); `PartChosen` adds that the component which a run
  chose at the start stays chosen.

## 6. What is model-checked only, and what is not modelled

Every invariant and every refinement that the passing runs check is the statement of a theorem.
Liveness stays with TLC (the prover does not handle fairness or `ENABLED`), and so does
what `LifecycleRestart` shows of the workers and messages of `RunLifecycle` over restarts, since
the theorems about them assume that there is none. Nothing was proved of the environments in
which a property is false.

Not modelled, and why: the components with status `not_modelled` in
`PROJECT.json` carry their reasons. The Firecracker and Docker runtimes and
git are command lines whose outcomes (success, failure) are inputs of the
models. Of the HTTP API the limits and the event streams are modelled; the rest routes a
request to a handler that is an action of another module. Of the clients the reader of
a run and the desk window are; the rest is layout. Projects, memory and notifications
are records that one request reads and writes in a turn.
Within `RunLifecycle` the desk targets and the agentscope kernel are left out (`LoopTurn`
and `DeskHost` have them), as are hand-off, transfer and collaborators; the deletion of
a run is in `Persistence`. What the other modules leave out is listed with them above.

## 7. Plan

Done, with proofs: `VmSlots` and `SlotLease`, `RunLifecycle`, `LoopTurn` and `MessageLedger`; `DeskHost`
(dispatch to desks), `ToolsChannel` (hub and repeat guard), `EventStream`, `Workspaces`
(warm pool, builds, eviction), `Automations`, `Subscriptions`, `Persistence`, `RateLimits`.

Left, in the order of importance:

1. A ledger like `MessageLedger` for a run in the cloud (accepted, at a worker, answered,
   given up, and back to waiting when a worker dies with a message), implemented by each run of
   `RunLifecycle` in a quiet conversation.
2. Hand-off of a run between desk and cloud, and its transfer to another user: two
   executions of one run that must not overlap.
3. The Redis copy of hot events with several control planes (`events/redis.ts`), and the
   mirrors of whole lists (`mirrorAutomations`, `mirrorProjects`), in which an older write
   that arrives late deletes what a newer one added.
4. Proofs: the workers and messages of `RunLifecycle` over restarts.
