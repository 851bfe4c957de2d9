# A TLA+ model of the Foryx backend

Foryx is a desktop application whose Go backend (`src/backend`) stores workflows, fires
them from triggers, runs them durably, and lets a language model build and operate them
in a chat. These modules model the parts where most can go wrong without anybody noticing:
the ones in which goroutines, timers, requests, restarts and half-done work meet.

Paths below are relative to `src/backend/internal/` unless they begin with `src/`.

## 1. Inventory of the system

| component | state | operations | what makes it correct |
|---|---|---|---|
| **run engine** `app/scheduler` (advance, dispatch, pool, run, kill) | in memory: `advInProgress`, `advPending`, `advQueued`, `advQueue`, the `inflight` map of cancel functions; per goroutine: carried rows, the current batch | `Advance`, `drive`, `enqueueAdvance`, `StartRun`, `DecideApproval`, `CheckTimeouts`, `Replay`, `KillWorkflow`, `Recover`, `Shutdown`, `StopPool` | one driver per run, no activity twice, no lost wakeup, a run ends in the state its rows say |
| **graph walk** `app/scheduler/walk.go` | none, pure over the graph and the rows | `computeReady`, `edgePruned`, `predecessorsSatisfied` | joins wait for what is taken and for nothing else |
| **workflow graph** `domain/workflow/graph.go`, `ops.go` | a graph value | `ValidateGraph`, `BackEdges`, edit ops | a validated graph can be walked to an end |
| **run ledger** `infra/store/flowrun` | tables `flowruns`, `flowrun_nodes` | `SeedRunOnTx`, `InsertNodeResult`, `ResolveParkedNode`, `CancelParkedNodes`, `MarkRunTerminal`, `DeleteFailedNodes`, `ReopenForReplay` | record-once, an ended run is only reopened by a replay |
| **boot and shutdown** `bootstrap/build.go` | phase of the process | `Boot`, `Serve`, `Shutdown`, tickers | recovery before listening |
| **firing inbox** `app/trigger/report.go`, `infra/store/trigger`, `scheduler/run.go` | table of firings, five overlap policies | `AppendFiring`, `DrainFirings`, `ClaimFiring`, `MarkFiringOutcome`, `SupersedePending` | a firing is consumed once, policies see their siblings, nothing waits for ever |
| **workflow lifecycle** `app/workflow`, **trigger registry** `app/trigger` | `lifecycle_state`, active version; listeners with a set of workflows each, one-shot marks | activate, stage, deactivate, kill, edit, delete; `Attach`, `AttachOnce`, `Detach`, `fanOut`, `RestartListener` | who listens is who is active; a source runs while somebody listens, unless it cannot start; a drain ends |
| **chat queues** `app/chat` | per conversation: channel, `running`, `dead`, cancel; the rows of its turns | `Send`, `enqueue`, `runQueue`, `Cancel`, `Delete`, `Shutdown` | one turn at a time, no task in a dead queue, no turn left streaming |
| **human-in-the-loop broker** `app/humanloop` | `pending`, `allowed` | `Request`, `Resolve`, `Forget` | no tool reported as dangerous runs unasked, unless an active skill pre-approves it; an answer reaches its waiter |
| **conversation memory** `app/contextmgr`, `app/chat/history.go` | blocks with sequence numbers and ages, a summary, a watermark | `LoadHistory`, `MaybeCompact`, demote, summarize, archive | a turn sees everything said once |
| **event streams** `infra/stream` | sequence numbers, replay ring, subscribers | `Publish`, `Subscribe`, cancel | a subscriber that reconnects misses nothing it was not told of |
| **handler processes** `app/handler/manager.go`, `infra/handler/client.go` | `instances`, `spawning`, each client's mutex and crash flag | `Get`, `Call`, `Restart`, `Stop`, `StopAll` | one live process each, none lost, none killed in a call, edits take hold |
| **sandbox environments** `app/sandbox`, `infra/store/sandbox` | manifest rows, directories, a map of mutexes | `EnsureEnv`, `Destroy`, `EnsureRuntime`, `DeleteRuntime`, `Spawn`, `GC` | the manifest says what is on the disk |
| **search index** `app/search`, `infra/search` | rows, vectors, a bounded queue of changes | `Changed`, worker, `reconcile`, `Reindex`, `backfill` | the index catches up with the tables, vectors with the index |
| MCP servers, trigger listeners, agent loop, builders, workspaces, settings, LLM tools and providers, ORM, HTTP, shared packages, front end | records and adapters | | section 6 and the notes in `PROJECT.json` say why each is left out |

How they interact. A trigger listener reports to the trigger service, which inserts a
firing per listening workflow; the drain ticker claims firings and seeds runs in the claim's
transaction; runs go to the pool's queue. A manual run, a decision and a replay are driven
on the goroutine of the HTTP request (or chat tool) that asked, on **its** context; a
background run by a worker on a detached one. When a run settles, the scheduler completes
the drain of its workflow, which detaches it from its triggers. Activities call handlers,
whose processes run in sandbox environments. Chat turns run tools, some of which ask a
human first. All services publish to the streams and tell the search index what changed.

The services share no lock. Every interaction above is a sequence of statements and
critical sections, between which others go on; that is what the modules are about.
Which behaviours are hard, and at which line each bites, is the list `hazards` of
`PROJECT.json`, with the properties that watch them.

## 2. Modules

| module | stands for | code it reads |
|---|---|---|
| `Graph` | `BackEdges` (the depth-first search as a recursive function of explicit search states) and `ValidateGraph` | `domain/workflow/graph.go` |
| `Walk` | `computeReady` and its helpers; a row is a status and the port its node selected | `app/scheduler/walk.go`, row results of `dispatch.go` |
| `GraphWalk` | an author adds edges, the graph is validated, one driver walks it, approvals are answered, the driver may die inside a batch | `ops.go` `add_edge`, `advance.go` |
| `FlowRun` | the run engine, the two tables and the process that hosts them | `app/scheduler/*.go`, `infra/store/flowrun/flowrun.go`, `bootstrap/build.go` |
| `RunLedger` | abstract: what the two tables promise, whoever writes them | (a specification, not code) |
| `TriggerInbox` | reports, the table of firings, the drain with its five policies, claims, the hand-over to the pool | `app/trigger/report.go`, `infra/store/trigger/firings.go`, `app/scheduler/run.go` |
| `WorkflowLifecycle` | lifecycle calls, edits, reports and settling runs over the registry of listeners | `app/workflow/execution.go`, `crud.go`, `app/trigger/lifecycle.go`, `report.go`, `crud.go`, `infra/trigger/fsnotify`, `app/scheduler/kill.go` |
| `ChatQueue` | the turns of one conversation and the human gate | `app/chat/chat.go`, `runner.go`, `app/loop/tools.go`, `app/skill/activate.go`, `app/humanloop/humanloop.go` |
| `ChatMemory` | what the turns of one conversation see, and its compaction | `app/chat/history.go`, `app/contextmgr/*.go`, `infra/store/messages` |
| `StreamBus` | one workspace of an event bus, its SSE handlers, clients that reconnect | `infra/stream/*.go`, `transport/httpapi/response/sse.go` |
| `StreamLog` | abstract: a log whose attached readers get every entry once and in order | (a specification, not code) |
| `HandlerInstances` | the manager of the handlers' processes and their clients | `app/handler/*.go`, `infra/handler/client.go` |
| `SandboxEnvs` | environments and the runtime they share: manifest, disk and mutexes | `app/sandbox/sandbox.go`, `spawn.go`, `infra/store/sandbox`, `pkg/orm/mutation.go` |
| `SearchIndex` | the projection of entities into rows and of rows into vectors | `app/search/indexer.go`, `semantic.go`, `service.go`, `infra/search/*.go`, `app/conversation/searchsource.go`, `app/document/document.go` |
| `*_proofs` | theorems: `Scheduler_proofs` about `FlowRun`, `Graph` and `GraphWalk`, `Chat_proofs` about `ChatQueue` and `ChatMemory`, the others about the module they are named after | |
| `MC*` | instances for TLC: graphs, timeouts, policies, fault budgets, symmetry | |

`Walk` extends `Graph`; `GraphWalk`, `FlowRun` and `RunLedger` extend `Walk`; `FlowRun`
instantiates `RunLedger` over its own `status` and `frn`, `StreamBus` instantiates
`StreamLog` with a refinement mapping. The other components meet at an interface that each
side abstracts: a run is running, ended or parked in `TriggerInbox` and a counter in
`WorkflowLifecycle`, a trigger fires at will in `TriggerInbox`, a queue is a slot and a
gate in `ChatMemory`.

Conventions. A step is what runs between two points where another goroutine can come in
between: one SQL statement or transaction (the database is opened with a single connection),
one critical section, one change of the disk, the start or the end of an activity. Every
call that changes state is inside the step that makes it. `pc`, `at` or a record's field
`at` is the next step of a goroutine, the other fields are its locals. A crash resets the
memory and keeps tables and files. Operators whose comment begins with "Mutant:" are
plausible bugs of the definition that follows them; no specification uses them,
`PROJECT.json` lists which property each one breaks.

### FlowRun: state and steps

| variable | code |
|---|---|
| `status`, `frn` | `flowruns.status`, the rows of `flowrun_nodes` by (node, iteration) |
| `inProgress`, `pending`, `queued`, `queue` | `advInProgress`, `advPending`, `advQueued`, `advQueue` |
| `inflight` | the `inflight` map; a cancel function is the process whose context it cancels |
| `pc`, `at` | next step of each goroutine and the run it holds |
| `mem`, `todo`, `advanced`, `staleRows` | the locals `rows`, `ready`, `advanced` and the record-once conflict flag of `Advance` |
| `list`, `due` | the slices `Recover`, `DrainFirings`, `KillWorkflow` and `CheckTimeouts` iterate over |
| `baseDead`, `childDead` | the request context is cancelled; the child context of `trackInflight` is cancelled |
| `phase` | down, booting, up, and the three steps of `Shutdown` |
| `used` | faults so far, bounded by the constant `Budget` |

`Advance` is eleven steps (`GetRun`, `Load`, `WalkTurn`, `BeginNode`, `FinishNode`, `FailNode`,
`AbortNode`, `EndBatch`, `Finalize`, `Settle`, `EndAdvance`); `Replay` and `KillWorkflow` take
four and three for each run. A cancelled context is modelled by what it does: no activity is
dispatched, and every statement on it fails, the failed row and the run's terminal status
included.

Simplifications. `EndAdvance` merges Advance's deferred release of the inflight entry with
the exit check of `drive`. The queue's capacity is not modelled, so a feeder that blocks
on a full queue is not either. What follows the terminal mark (the reconciliation of draining
workflows) is in `WorkflowLifecycle`; notifications and the attention banner are left out.
Approvals of one node are overdue together: there is no clock, a listed approval is overdue
whenever its node declares a deadline. The second branch of `FinishNode` (a row already
exists) is defence in depth of the code: the theorem `NoRerunInvariant` shows it is never
taken, and it is modelled because it is there.

### Walk and Graph

The breadth-first search of `computeReady` is the closure it computes; its error at the
iteration cap (10 000 in the code, `MaxIterations` here) is `Overflow`. A control selects
any of its wired ports or one no edge is wired to; a CEL failure is a failed node. The
data a node reads (`scopeFor`) decides nothing about order and is left out. `BackEdges` is
translated with its declaration-order roots and edge order, because the result depends on
them.

### The other modules in short

* `TriggerInbox`: `firings` and `runs` are the tables in order of creation; `step`, `batch`,
  `hand`, `running`, `newest`, `victims`, `seeded` are the locals of `DrainFirings` and of its
  policies. The deduplication of a report is by key; a manual run, a replay, an edit, a
  delete and a crash come between any two statements.
* `WorkflowLifecycle`: `workflows`, `once` and `hot` are the trigger service's registry, `life`,
  `entry`, `queued`, `running` the database. A call writes the version pointer, detaches and
  attaches trigger by trigger and writes the lifecycle, a step each. A source's registration may fail, on an attach or after a trigger's
  edit; `stopped` are the sources a failed one took down. `excused` are the
  bindings a stage, a racing detach of a report, or a failed attach made or missed: the
  code leaves those behind, see section 4.
* `ChatQueue`: a queue outlives its entry in the map, so `queue` and `runner` are indexed by the queues
  made since the boot. `Open`, `GetQueue`, `Offer` and `Refuse` are the steps of `Send`;
  `Dequeue` to `Rest`, with `Expire` and `TearDown`, those of the queue's goroutine; a panic or the
  deadline may come at any of them. The capacity of a queue is 1, as in the code. `skilled` are the queues whose `AgentState` has an
  active skill that pre-approves the dangerous tool; a turn may activate one, or another one, at any time before it calls the tool.
* `ChatMemory`: one number stands for the consecutive sequence numbers of a message's blocks. A
  summary is the set of messages it folds. Whole-row writes of the conversation by others are `ReadRow`, `WriteRow`.
* `StreamBus`: `Publish` and `Subscribe` hold the workspace's mutex and are a step each;
  taking from a channel, leaving and unlisting are not under it.
* `HandlerInstances`: a version and its configuration are one number. A spawn is four steps outside the manager's mutex;
  a call holds its client's mutex; asking a client whether it crashed takes both.
* `SandboxEnvs`: `Save` is the ORM's upsert. Any statement may fail, most run on the context of a caller who may be gone, and so may
  any removal of a directory; a fault is one of these or a crash. `split` are the owners on which the code lets two operations overlap
  (section 4): it ends when an operation has the owner to itself again, and the row it finds is `mixed`. `stuck` are rows that a fault left half
  destroyed or unwritten, `torn` runtimes deleted beside another operation or half way. The properties speak of all the other rows,
  those built after an overlap or a fault on the same owner included.
* `SearchIndex`: a text is named by the time it was written. Plain entities are projected whole, a conversation
  by message. Documents form a tree: a write of one writes any of the others with it (renamed, moved, copied or deleted with it), and only
  the one is told of. A write comes within the slack of the last or later; `rushed` are the entities whose last write did. `missed` are
  the entities of which a change was lost or never told, until they are read again or a comparison of stamps makes up for it. A kick is taken or
  dropped; `stalled` says that one was dropped, or a round broken off, and no round has begun since.

## 3. Runs

Every passing run ends within about two and a half minutes with two TLC workers. `CHECK_DEADLOCK FALSE`
everywhere it appears: with the bounds on requests used up the system is at rest.

| run | instance | properties | states |
|---|---|---|---|
| `flowrun_faults` | a gated run (t, approval a, c), 1 worker, 2 callers, both tickers; one each of crash, shutdown, kill, replay, disconnect; the deadline fails the run | `SingleFlight`, `NoRerun`, `CompletedHasNoParked`, `RecordOnce`, `RefinesLedger` | 542 560 |
| `flowrun_liveness` | a loop closed by an approval, shutdown, restart and replay | `RunningHasOwner`, `RunsSettle`, `TimedApprovalsSettle` | 15 124 |
| `graph_walks` | every graph of a trigger, an action, a control and either an approval or an agent with at most 5 edges, in two declaration orders | `BackEdgesCutLoops`, `StructuredLoopsClose`, `NothingStranded`, `JoinsWaitForAll` | 183 740 |
| `inbox` | a workflow on two triggers, any policy, two reports, a manual run, a replay, an edit, a delete, a crash | `OneRunPerFiring`, `OneAtATime`, `RunningIsPooled`, `DisposedNeverRuns`, `FiringsSettle` | 234 724 |
| `stream` | two clients, a ring of 2 frames and channels of 3, four frames, a token frame, a restart | `RefinesLog`, `CatchesUp` | 389 554 |
| `lifecycle` | one workflow, two triggers, one call at a time, one report in flight, two settling runs, six events: requests, reports, failed registrations, crashes | `BindingsFollowLifecycle`, `ListenersAreHot`, `DrainEnds` | 690 249 |
| `chat` | two turns, two queues, one cancel or delete, skills that pre-approve, a shutdown, a crash | `OneTurnAtATime`, `RunsOpenTurns`, `GatedToolsAskFirst`, `TurnsEnd`, `ShutdownReturns` | 402 088 |
| `memory` | three messages, two protected, one event of a trace, a stale write or a crash | `NothingForgotten`, `NothingTwice`, `TaskIsSeen` | 2 142 395 |
| `handlers` | a handler, two callers, two requests, two processes, the exit | `OneSpawner`, `NoOrphan`, `NeverKilledInCall`, `RestartsTakeHold` | 1 110 794 |
| `sandbox` | an owner, two dependency lists, two callers, four operations; one crash, failed statement or failed removal | `RowsAreTrue`, `EnvHasRuntime`, `OperationsEnd` | 903 223 |
| `search` | two documents, perhaps one under the other, a conversation of one message, three clock ticks, a slack, a queue and a batch of one, one restart, rebuild, failed copy or failure | `IndexHeals`, `VectorsMatch`, `VectorsAwaited` | 2 479 310 |
| `lost_decision` | a fork into an approval and an activity, two callers, no faults; expects a violation | `CompletedIsExhausted` | |

`lost_decision` reads in words: the driver carries its rows and works on branch b; a human
approves on branch a; the driver finds nothing ready in the rows it carries and nothing parked
in the table, marks the run completed, and the approved branch never runs.

### Bounds and why they are enough

* `Runs`, `Workers`, `Callers`, `Budget`: one run, because runs share only the pool's queue and maps, keyed by run;
  two callers and a worker are three drivers of it: one inside, one leaving the redrive mark, one that comes after
  the mark was taken. One fault of each kind in any order: a second crash meets the states the first can leave.
  The theorems hold for any number of all four.
* `MaxIterations` = 1 is two turns of a loop and the error at the third; a turn depends only on the turn before it.
* `MaxEdges` = 5 over four nodes contains a loop with an exit and a join, two loops, a join of two
  branches, a fork and its join. **It is not enough for everything:** `JoinsWaitForAll` fails
  on a graph of seven edges with two overlapping loops closed by two approvals (t to b, b to m,
  b to x, m to c, c-no to m, x-no to b), which validates; the property is stated for the graphs within the bound. Edges into
  the trigger are left out, and the trigger is declared first (section 4).
* `Events` of `TriggerInbox`: two reports are one firing running and one overtaken by it; `DrainLimit` 3 lists all. The
  theorems hold for any number of workflows, triggers and events.
* `BufSize` 2, `Capacity` 3, `MaxSeq` 4: the ring overflows twice, a replay fills a channel and the frames after it
  overflow it; `MaxEphemeral`, `MaxRestarts` 1.
* `Callers` of `WorkflowLifecycle` is one: two concurrent calls on a workflow break the bindings, a known deviation. The theorem covers
  calls on different workflows; its invariant was also checked with two callers and two workflows (2.7 million states). `MaxEvents` 6
  is activate, report, edit of the workflow or the trigger, deactivate, report, and a crash or a failed registration. `MaxQueued` 1.
* `MaxQueues` 2 is a queue and the one made while the first is torn down; `MaxCalls`, `MaxCrashes` 1.
* `Protected` 2, `Hot` 0, `Warm` 1, `MaxSends` 3: a message leaves the protected ones while the next turn runs. `MaxEvents` 1.
* `MaxSpawns` 2 is a process and its replacement, `MaxRequests` 2 an edit during the restart after another.
* `MaxRequests` 4 of `SandboxEnvs` lets two operations follow each other on two goroutines: an overlap takes three, and the fourth
  builds anew after it. `MaxFaults` 1 is one fault at any step; the theorems cover any number of faults, owners and goroutines.
* `MaxClock` 3 and `MaxEvents` 1 of `SearchIndex` start from an index that has caught up: two writes within `Slack` 1 (one tick) of each other, or one after it,
  around one event; more of either exceeds ten million states, and the theorems cover it. `QueueSize` 1 drops every second change, `EmbedBatch` 1 leaves a round unfinished.
* Symmetry is used over interchangeable workers, callers and documents, in runs with safety properties only.

### Fairness

`FairSpec` always means weak fairness of the steps of goroutines the program itself starts
and keeps running, and nothing of anyone else:

* `FlowRun`: every goroutine that has begun, the two tickers and the life cycle (a stopped process is started again, a shutdown
  proceeds, boot calls `Recover`). An activity returns or is interrupted, every one has a timeout. A step that is enabled stays enabled except
  where a context is cancelled, which enables another step of the same goroutine; so weak fairness suffices.
* `TriggerInbox`: the drain ticker, the reporter's appends, and that a run that is not parked for good ends (the previous item).
* `StreamBus`: a handler that has a frame writes it, a handler that leaves unlists.
* `WorkflowLifecycle`: begun calls, settling runs, and that runs end.
* `ChatQueue`: senders, the queue's goroutine, begun calls, and the wall clock of a turn (`runner.go`, the total deadline).
* `SandboxEnvs`: begun operations; an installation succeeds or fails. Failing statements and removals are not fair.

Requests, reports, writes, humans, kills, shutdowns and crashes are never fair: an approval
without a deadline may wait for ever.

## 4. Known deviations

Where the code and its words part, or the code allows what nobody would want. The run
`lost_decision` checks one sentence of the repository that TLC finds violated (quotes and
lines in `PROJECT.json`, `findings`). The rest was met while modelling; each is reachable in
the module named, under the bounds named, or excluded from a property by name. They are
listed because they bound what the passing runs say.

**Run engine** (`FlowRun`)
* A crash between the failed row and the failed status: recovery walks past the failed row and completes the run (`dispatch.go:130`).
* A kill withdraws parked rows, the driver parks another approval, then the kill cancels its context: the approval stays in the inbox of a cancelled run (`kill.go:104`).
* A kill or a shutdown between Advance's status check and the registration of its context is not seen by that driver (`advance.go:37`); a worker that takes a queued job while `StopPool` waits goes on dispatching.
* The request that drives a manual run goes away: the run stays running without a driver until the next boot (`handlers/flowrun.go:81`). `RunningHasOwner` is therefore checked without disconnects.
* A kill lists the running runs, one of them fails by itself and is replayed, and then the kill cancels the new driver's context: the run stays running without a driver (`kill.go:104` beside `ReopenForReplay`). `RunningHasOwner` is checked without kills and proved for histories in which it does not happen (`KillsApart`).
* An activity interrupted by `Shutdown` cannot record its failed row on the dead context; its run stays running and resumes at the next boot, as `advance.go` says and `build.go:419` does not.
* Two replays of one failed run: the slower one reopens a run the faster one drove to completed, because `ReopenForReplay` reads the status and then updates without a condition.
* The search of `BackEdges` starts inside a loop if a node of it is declared before the trigger (`graph.go:273`): a structured loop is then cut at the wrong edge. `graph_walks` declares the trigger first.
* A replay looks whether the run failed, clears its failed rows and reopens it in three statements; the withdrawal of a kill that marked the run before, or a second
  replay, may come between them (`run.go:451`, `kill.go:85`). `LedgerRefinement` is about histories in which that does not happen (`ReplaysApart`).
* A join behind two loops that stand side by side runs its next iteration as soon as one of them has turned; when the other turns afterwards, the join has already run without it (`walk.go`, `computeReady`). Such a graph (trigger, two heads, two controls, join) has eight edges, three more than `graph_walks` adds; there `JoinsWaitForAll` fails, as it does on the graph of seven edges described under the bounds above.
* A node behind a loop's exit runs at the iteration the loop was left at, where `walk.go:10` says 0; a branch back to the trigger validates and ends silently, because a trigger is never ready.

**Inbox, lifecycle, triggers** (`TriggerInbox`, `WorkflowLifecycle`)
* A firing whose run cannot be built stays pending and is tried again at each tick (`run.go:256`).
* Two concurrent calls on a workflow (activate beside deactivate, an edit beside either) leave bindings of neither; hence one caller in the run and `CallsApart` in the theorem. A stale whole-row save overwrites a lifecycle written meanwhile.
* Staging and then activating keeps the one-shot mark: the next report detaches an active workflow. Two reports in flight run a staged workflow twice. An attach that fails half-way leaves the part that worked. All are in `excused`.
* A failed registration after an edit of a trigger is only logged (`trigger/lifecycle.go:124`), and the file watcher drops the old watch before the new one can fail (`fsnotify.go:91`): the workflows then listen to a
  source that is stopped, until a later registration. That trigger is in `stopped`. A source that fails without going down listens on with its old configuration.
* Two file-watch triggers on one path share a watch of the operating system, which the first `Unregister` removes: `hot` says that the listener knows the trigger, not that the system still reports to it.
* `Delete` of a trigger drops its entry and then its row; the model takes the two in one step, so an attach that read the row before is not seen between them.
* Deactivate counts the running runs and then writes draining (`execution.go:141`): if the last run settles between the two, or a crash falls between the terminal mark and the reconciliation, the workflow drains for ever. `DrainEnds` asks for a run that runs while the workflow drains, and excepts a crash.

**Chat** (`ChatQueue`, `ChatMemory`)
* `Cancel` misses a turn that was taken from the channel and has not registered its cancel function yet (`chat.go:552`-`572`).
* A panic behind the last write overwrites a completed row with an error. A `Send` that is refused leaves its user message.
* A skill the model itself activates runs the dangerous tools of its allowed-tools unasked (`tools.go:150`). `skill/activate.go:32` calls this pre-approval good "for the rest of the run"; it is kept in the queue's
  `AgentState` (`chat.go:474`), so it also holds for later turns until another skill is activated or the queue torn down. `GatedToolsAskFirst` therefore reads: approved, or under a skill active in this queue. It is the model, too, that reports
  a call as dangerous; a call it reports as safe, and any call of a subagent or a workflow (which have no broker), is not gated.
* An answer may be accepted although the request behind the prompt has just been aborted; `approve_always` may be written after `Forget`.
* A message sent while a turn is queued gets a smaller sequence number than that turn's answer; a watermark may pass it (`late` in `NothingForgotten`). A stale whole-row write takes a summary back (`undone`).

**Streams** (`StreamBus`)
* A subscriber that is too slow is cut off without being told: its connection stays open and silent, since `sse.go` does not look at `done` (`bus.go:112`); a burst of token frames alone can cut it.
* After a restart frames are numbered anew; a client with an old number may skip frames (`stale`).

**Handlers** (`HandlerInstances`)
* A stop, a delete or an edit during a spawn finds nothing to stop: the stale or deleted handler's process is registered afterwards (`missed` in `RestartsTakeHold`, and `gone`).
* A cancelled call marks the shared client as crashed. `Get` asks a client whether it crashed while it holds the manager's mutex, and waits there for a long call.

**Sandbox** (`SandboxEnvs`)
* `dropOwnerLock` removes a mutex others wait for; the next caller makes a second one and both work on the environment (`split`).
* A spawn's write of the row it read is an upsert: it brings a row back that a Destroy deleted meanwhile (`split`).
* `DeleteRuntime` takes no lock: the runtime may be chosen by an `EnsureEnv` beside it (`torn`); so is a runtime whose row could not be deleted after its directory was.
* The write that makes a built environment ready runs on the caller's context (`sandbox.go:443`), unlike the one that marks a failed one: if it fails the row says installing and nobody installs, until the owner's next `EnsureEnv` builds anew. A failed-status write that fails is only logged (`sandbox.go:513`), with the same effect.
* If a directory was removed but its row could not be deleted, the row may say ready of a directory that is gone, and the next `EnsureEnv` or `Spawn` uses it (`sandbox.go:498`). A directory that could not be removed is logged and its row deleted. The rows of these two items are in `stuck`.

**Search** (`SearchIndex`)
* A dropped change of one message of a conversation (or of its title) that a later indexed message follows is never healed: the stamp compared at boot is the newest of all the conversation's rows, messages included (`indexer.go:14`-`18` and `docs/references/backend/domains/search.md` say boot heals it).
* Archived conversations are not among the stamps; after a schema bump they stay out of the index until they are touched.
* A write of a document that writes others tells the index of the one (`document.go:232`, `421`), the rewritten paths under a renamed or moved one of none (`document.go:509`), and a copy that fails half-way of nothing at all. The others'
  rows stay as they were, with an empty queue and nothing lost, until they are written themselves, or a boot's comparison or a rebuild finds them (`missed`). A move also numbers its siblings anew: their stamps are newer, their text is the same; this is left out.
* Stamps within one millisecond count as equal (`indexer.go:25`): a change lost within it of the write before is not found at boot (`rushed`).
* A kick dropped because the 64 slots of the embed worker's queue, which all workspaces share, are full is made up for by the workspace's next kick only (`semantic.go:205` says so); until then its rows have no vectors. With no embedder configured every round is given up.
  Both are `stalled`, so no liveness is stated: `VectorsAwaited` says that nothing else forgets a row.
* A delete dropped while the worker holds the entity's old rows can escape one comparison, until the next boot (`missed`). Changes dropped while a comparison fills the queue wait for the next one.
* `UpsertDocAt` keeps the row's id, so a message rewritten while it is embedded may get the old text's vector: `VectorsMatch` is about entities that are projected whole.
* Left out of `Plain` is what carries no time stamp to compare: the tools of MCP servers, and skills and memories whose files are edited outside the program.

## 5. Proofs

Each theorem holds for every value of the constants that satisfies the named assumptions: any number of runs, callers, workers, triggers,
events, crashes, any graph. The assumptions say only that names differ, that bounds
are numbers and that graphs and tables of entry triggers are well formed (edges are listed, nodes are declared once). Six theorems
assume more, because what they say is false without it (section 4), and each says so in its statement: `RunningHasOwnerInvariant` that no
caller goes away while the server is up (`ClientsStay`) and no replay of a run begins or goes on between its mark by a kill and the end of that kill's work on it (`KillsApart`), `BindingsFollow` that no two calls
work on one workflow at a time (`CallsApart`; its corollary `OneCallerFollows` is the instance of the run), `NothingStrandedInvariant` that no edge
leads into a trigger, `StructuredLoopsInvariant` that and that triggers are declared first, `JoinsWaitInvariant` and `LedgerRefinement` that loops take
turns, and `LedgerRefinement` that `ReplaysApart` holds all along. These are assumed of the behaviour (`Spec /\ []KillsApart => ...`), not of
the bounds: any number of callers, kills and replays is allowed. The code enforces none of them. `MCGraphWalk` and `MCFlowRun` assert of
their instances what concerns graphs (`graph_walks` checks `JoinsWaitForAll` without it: within its bound no graph needs it),
the bounds of the runs `lifecycle` and `flowrun_liveness` give the others; `flowrun_faults` checks `RefinesLedger` without
`ReplaysApart`, because with one approval a late withdrawal reads as an answer.

`LoopsTakeTurns(g)` (`Walk`): wherever an iteration starts and whatever its decisions choose, the back edges it comes to lead to one
node. Structured loops nested in one another, one after the other, or with several branches back to one head are such graphs; the two of
section 4, in which loops turn side by side or overlap, are not. `ReplaysApart`: while a request replays a run no other one replays it,
or is between the status and the withdrawal of a kill of it.

| module | theorems |
|---|---|
| `Scheduler_proofs` | of `FlowRun`: `TypeOKInvariant`, `SingleFlightInvariant`, `RecordOnceHolds`, `NoRerunInvariant`, `CarriedRowsDurableInvariant`, `CompletedHasNoParkedInvariant`, `RunningHasOwnerInvariant`; of `GraphWalk`: `LoopsAreCutWhereClosed` (`BackEdgesCutLoops`), `StructuredLoopsInvariant` (`StructuredLoopsClose`), `NothingStrandedInvariant` (`NothingStranded`), `JoinsWaitInvariant` (`JoinsWaitForAll`); of `FlowRun` with `RunLedger`: `LedgerRefinement` (`RefinesLedger`) |
| `TriggerInbox_proofs` | `TypeCorrect`, `ExactlyOnce` (`OneRunPerFiring`), `NoOverlap` (`OneAtATime`), `NothingForgotten` (`RunningIsPooled`), `DispositionIsFinal` (`DisposedNeverRuns`) |
| `StreamBus_proofs` | `TypeCorrect`, `Bounded`, `Listed`, `Refinement` (`RefinesLog`) |
| `WorkflowLifecycle_proofs` | `TypeCorrect`, `ListenersHot` (`ListenersAreHot`), `BindingsFollow` and `OneCallerFollows` (`BindingsFollowLifecycle`) |
| `Chat_proofs` | of `ChatQueue`: `TypeCorrect`, `OneAtATime` (`OneTurnAtATime`), `NothingLost`, `OnlyOpenTurns` (`RunsOpenTurns`), `PromptsLive`, `GateHolds` (`GatedToolsAskFirst`); of `ChatMemory`: `MemoryTypeInvariant`, `NothingForgottenInvariant`, `NothingTwiceInvariant`, `TaskIsSeenInvariant` |
| `HandlerInstances_proofs` | `TypeCorrect`, `SingleFlight` (`OneSpawner`), `NoProcessLost` (`NoOrphan`), `KilledIdle` (`NeverKilledInCall`), `ChangesTakeHold` (`RestartsTakeHold`) |
| `SandboxEnvs_proofs` | `TypeCorrect`, `OneAtATimeInvariant`, `InstallAloneInvariant`, `RowsAreTrueInvariant`, `EnvHasRuntimeInvariant` |
| `SearchIndex_proofs` | `TypeCorrect`, `VectorsMatchInvariant`, `IndexHealsInvariant`, `VectorsAwaitedInvariant` |

### The arguments

**FlowRun** goes in layers; each is inductive relative to those below it.

1. `TypeInv`: types, plus that a process holds a run exactly in the steps that use one.
   A step that reads `frn[at[p]]` means something only then.
2. `FlightInv` (`Marked`): a driver's run is in `inProgress`, and two drivers never hold the
   same one. `SingleFlight` alone is not inductive: `Drive` tests the map, not the other processes.
3. `BegunInv` (`OnlyBegun`) and `CarryInv` (`Carry`): what a driver carries is in the table
   with the same outcome, and a key in its batch has no row there, since the single
   driver is the only one who inserts rows for its run. It rests on `RecordOnce`: a conditional update,
   an insert that loses to an existing row, and a delete of failed rows leave completed rows alone.
   `NoRerun` follows; single flight is essential.
4. `ParkInv`: between `Finalize`'s look at the table and `Settle`'s mark no row is parked,
   because only the driver parks and it is in `Finalize`; and a completed run is in nobody's
   batch, except for a driver that is through with it.

5. `ContextInv` (`Contexts`): whose context is registered for which run, that only requests kill, what the boot still has to
   list, that who is cancelled is a driver, and that a kill past its mark works on a run that is over. `OwnerInv` on top of it: while the server is up, a running run
   that awaits no approval is in progress or somebody will start it (`Pursued`), and a driver that gets such a run no further, being on its last step or cancelled, leaves the
   redrive mark behind or somebody will start it (`Rewoken`). A cancelled driver may outlive the kill and see its run replayed: the mark is what saves that run. The second is the one that needs the argument: who finds the run in progress does nothing but leave the mark.

**Graph and GraphWalk** speak of every graph, whatever its size. `BackEdges` and `ReachFrom` are recursive functions that loop to a
final state; that such a function has the value it reaches is shown once (`LoopExists`, `LoopEnds`: an invariant set of states
that a step never leaves and in which some finite set shrinks strictly), by the library's well-founded recursion over strict subsets, since
induction over an arbitrary formula is out of reach.
* *The search.* `SearchInv`: the stack holds each gray node once (`PathShape`), a frame reaches the next by an edge followed (`Linked`);
  what has been followed and is no back edge leads to a finished node or up the stack (`LeadsOn`); from a finished node one
  gets only into a set of finished nodes without it (`Sunk`); from the end of a back edge its start is reached by other edges
  (`Closing`). When the search is over all nodes are finished (`BackEdgesFacts`), and with `ReachFrom` as the least closed set
  (`ReachIsClosure`) this is `LoopsAreCutWhereClosed`.
* *The walk.* What a node leads to by forward edges shrinks from edge to edge, so no set of nodes can have, for each of them,
  a forward edge from the set (`NoBottomlessSet`). `Reached` is a least closed set too (`ReachedIsLeast`, `ReachedFrom`). When nothing is ready or parked, a reached key
  without a row waits for another (`WaitsForAnother`); those of the lowest iteration would be a bottomless set: hence `NothingStranded`.
* *Structured loops.* As triggers are declared first, every root of the search is one (`RootIsEntry`), and what is followed leads from
  the triggers by paths that do not pass the edge's end (`FromEntries`). So an edge to a node that dominates its start is a back
  edge (`DominatedIsBack`); any other would close a cycle without it.
* *Joins.* `Grounded`: the table has one seed, and every other row's key follows a completed key along an edge that is live. So what an
  iteration reaches starts at the one node where a back edge entered it (`OneTurnHolds`, from `LoopsTakeTurns`); a row
  written later cannot bring a second entry, hence no new key and no new live edge into what was reached (`ReachedShrinks`,
  `IncomingShrinks`), and what was ready stays ready until it has its row (`StaysReady`). `WalkInv` is therefore inductive:
  rows `Grounded` and `Joined`, the batch `Ready`. Without the hypothesis the second entry is exactly how a join gets ahead of a loop.

**RunLedger.** `LedgerInv` is `ParkInv`, the rows of every run `Grounded`, and three facts about goroutines between two statements: what
is left of a driver's batch is ready in the *table* (`ReadyBatches`), though it was computed over the rows it carries and others answer,
time out and withdraw meanwhile; a run being replayed has failed (`ReplaysFailed`); a run whose approvals are being withdrawn is over
(`KillsOver`). The first rests on `Carry` (what is carried is completed in the table), single flight (nobody else adds rows) and
`StaysReady`; a replay deletes failed rows of a run nobody drives. Then each step moves the tables as `RunLedger` says or
leaves them (`LedgerMeans` reads the ledger's actions over `status` and `frn`, `LedgerStep` goes action by action). Two replays
of a run, or a withdrawal after a replay has begun, break the last two, which is what `ReplaysApart` is for.

**TriggerInbox.** Types with `HandInBatch` (the firing being decided is one of the batch) come first, because
appending to the tables must leave earlier rows where they are. `Consumption` adds that a listed firing is not started or
skipped before its turn. `Overlap` follows a policy through its steps: once it counted no run there is none until its own
claim, and a replacing policy's victims are all there are, because only this goroutine claims.

**StreamBus.** `BusInv`: the ring is the tail of the log, and the durable frames in a listed
subscriber's channel are those from its position to the last one, in order (`Fed`). The
refinement theorem maps each step to a step of `StreamLog` or a stutter.

**WorkflowLifecycle.** Marks belong to listeners and a trigger with listeners is hot or `stopped`: one case
per registry operation; only the last detach and the delete of the trigger cool it, and both leave no listener. `BindInv`: what a call knows of its workflow is true of it at
each of its steps (`CallSound`); a workflow listens where its lifecycle and active version ask it to, where the call under way
has already attached or not yet detached it, and where it is `excused` (`Bound`); one-shot marks and the detaches they cause are excused.
The step of a call leaves all of this alone for every workflow but its own, so calls on different workflows need not wait for each other.

**ChatQueue.** `Shape`: every queue but the map's entry is dead, empty and left by its goroutine; so one goroutine works.
`Owned`: a turn in a channel or in hand before its end is streaming, one past its end is not, and nobody else
has it. `Kept`: a streaming turn is with its sender, in a channel, in hand, or withdrawn by a `Cancel`. `Prompted` and `Gated` follow the answer from the human
to the tool; what ran without one ran on the whitelist, for which a human vouched, or under a skill of its own queue (`Excused`), and the turn in hand activates no other skill before it is over.

**ChatMemory.** The thread only grows, and what is numbered later is numbered above all that is there, so what a watermark has passed
stays decided. `MemoryInv` is `ThreadSound` (types, order of the numbers, the answer in hand is not numbered yet), `RowsSound` (every copy of the conversation's row
has in its summary what its watermark passed, and has not passed the task owed unless it is crowded out), `FoldSound` (what is being folded
is all that was said, unprotected and above the watermark), `NoAnchorYet` (no anchor follows an owed task), `ArchivedKept` (what is archived is in the
summary, wherever the summary is read) and `SeenSound` (what the model is given is what was above the watermark).

**HandlerInstances.** `IInv` is the conjunction of `Typed`, `Alone` (`OneSpawner`, goroutine by goroutine), `Private` (what a spawner works on is
known to nobody else), `Quiet` (what is killed is crashed, shut or unknown, and carries no call), `Asked` (who holds the manager's mutex),
`MainOnly`, `NoOrphan` and `Recent` (an instance's revision is in force, or its stop is to come, or it was missed).
The steps are grouped by what they do to processes (pass, join, make, build, end, stop, shut, kill, call), so that each conjunct has one lemma a group.

**SandboxEnvs.** Layers again. `Mutexed`: who is past the lock holds a mutex that is the map's or whose owner
is in `split`; so two never work on one environment. That `split` may end is the other half: whoever finds the owner calm when it takes the lock
is alone, since all others hold or await the mutex of the map (`Heals`). `Installing`: likewise for the kind's mutex. `Kept` and `Built`: the copy of the row an
operation works with is the row, and a row that says ready or installing has its directory or its builder, unless it is `mixed` or `stuck`;
a fault puts the one row it leaves behind into `stuck` and disturbs no other;
`Kept` is what makes a whole-row upsert harmless. `Runtimes`: numbers are taken in turn, so an id not used yet is nowhere taken for a runtime;
what an operation chose is registered or in `torn`; what is being deleted nobody has, chose, or it is in `torn`.

**SearchIndex.** `Embeds`: texts under way to a vector are the row's own. `IInv` is `Orderly` (shape of the worker and the scans), `Dated` (a
row that carries an entity's stamp was read after that write), `Requeued` (if the worker holds something
out of date, the change is queued behind it) and `Healing`: each chunk is right, or about to be by the worker, the queue or a scan
that has not compared it yet. `IndexHeals` alone says nothing about states that have not caught up. What nobody tells of is `missed` from the
write on, so the same invariant covers the documents under another. `VectorsAwaited` needs none of this and is inductive with the types: rows lose their vectors
where a kick follows in the same step, or before a scan that ends with one.

### What stays with TLC

* Liveness (`RunsSettle`, `TimedApprovalsSettle`, `FiringsSettle`, `CatchesUp`, `DrainEnds`, `TurnsEnd`, `ShutdownReturns`, `OperationsEnd`): fairness and ENABLED are out of the prover's reach.
* Every other property of a passing run has its theorem. `JoinsWaitForAll` and `RefinesLedger` are theorems under hypotheses only: larger graphs refute
  the first (sections 3 and 4), and on them a turn of a loop, recorded in the same batch, makes a ready join unready again, which the
  ledger does not allow. What the ledger promises about rows (`RecordOnce`) and ended runs (`CompletedHasNoParked`) is proved of all graphs.
* Nothing is proved by induction over data as such: where a recursive function matters (`Graph`) the argument goes through least closed sets and
  shrinking finite sets; where a queue or a table does, through invariants that speak of positions.

## 6. Not modelled

* **MCP servers**: the life cycle of handlers without edits; connects, reconnects and their races are next in the plan.
* **Trigger listeners** (cron, webhook, file watch, sensors): sources of events; starting and stopping them is in `WorkflowLifecycle`, their reports are actions of `TriggerInbox` and `WorkflowLifecycle`.
* **Agent loop**: rounds of model and tool calls are one choice of an outcome in `ChatQueue`; subagents one action of `ChatMemory`.
* **Process handles of the sandbox** (`running_pid`, the boot's clean-up of processes, installers): operating-system calls; an installation succeeds or fails.
* **Search queries**, ranking, the cache of vectors and the choice of a provider: reads.
* **Functions, agents and other builders, workspaces, credentials, settings**: records, one transaction per operation.
* **LLM tools and providers, ORM, HTTP, shared packages**: adapters and pure helpers; the parts of the ORM that matter (upsert, single connection) are in the steps.
* **Front end, demo, end-to-end tests**: clients of the HTTP interface.

The map covers a small share of the repository's lines because most of them are these.

## 7. Plan

1. MCP servers: connect, close and reconnect beside calls, with an exit.
2. Process handles of the sandbox: `running_pid` against the clean-up at boot and `RetryBootstrap`.
3. The tree of documents: moves beside deletes.
4. A composition of `TriggerInbox` and `WorkflowLifecycle` over one registry and one inbox.
5. Proofs: a necessary condition on the graphs on which joins wait for all; `RunningHasOwner` for the runs whose own client stays.
