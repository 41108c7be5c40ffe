# Formal model of the meta-agent runtime

TLA+ modules, TLC runs and TLAPS proofs for `yumxcode/meta_agent_runtime`
(TypeScript, about 122 000 lines of program without its tests). What is modelled is
the part of the program that has to be right across processes, crashes and
interleavings: the **graph-loop runtime** (`src/src/loop/graph/runtime`), with its
files, its wakes, its runner and its daemon, the **admission** of the machine and the
provider's **circuit** it runs under, the **file lock** everything stands on, and of a
chat session the **transcript** on disk, the **wakes** by which it continues itself, its
**sub-agents**, its **jobs**, and the **loop** that serves a prompt with its stall
guards. The rest is inventoried below, with the reason why it is left out.

Source paths in this file are relative to `src/src/` of the repository unless
they start with `src/`.

## 1. The system

### Components

| Component | State it keeps | Operations | What makes it correct |
|---|---|---|---|
| **loop/graph/runtime: GraphStore, CommitCoordinator** | per instance, under one transaction lock: a journal of events with periodic checkpoints, and their projections (instance, activations, State, commit intents, commits, external events, effect intents) | claim, release expired claims, park, retry, block, failStop, prepare and commit, resume timers/joins/events, record/expire events, set status, resume a paused Terminal | exclusive Lanes, capacity and timer limits, exactly-once commits and joins, no lost update under the serializable policy, closed instances stay closed, a crash anywhere reconciles |
| **loop/graph/runtime: GraphKernel, NodeExecutors** | nothing durable; per tick: claimed wave, leases, a clock reading, join announcements | `tick`: recover, housekeeping, sync status, claim, execute a wave in parallel, finish each activation | progress despite crashes, no decision on stale snapshots, budget overshoot bounded |
| loop/graph/runtime: LaneManager | lane leases: session, workspace and tasks of an Agent lane | acquire, release, reconcile | a lane belongs to at most one live activation |
| loop/graph: spec, lint, expressions | none | parse, validate, evaluate | accepts exactly the graphs the runtime can run |
| loop/graph: agent, distill, packs, operations | authoring files | compile, distil, install | (authoring tools) |
| loop/wake | wakes: scheduled, claimed with a lease, done | schedule, claimDue, heartbeat, release, cancel, reconcileOrphans | every live instance keeps a wake; one claim at a time |
| loop: runner, daemon | daemon lock; process memory | claim wakes, tick until quiescent, back off, reschedule | a failing tick is retried or pauses the graph; ready work is never stranded; one scheduler per workspace |
| loop/ingress | none of its own | deliver an external event, activate the instance, schedule a wake | an accepted event is never lost |
| loop/host: admission | tickets, leases, workspace leases, fairness counters across processes | acquire, pump, renew, release, reap | limits hold, no starvation, dead holders are reaped |
| loop/host: provider circuit | closed / open / half-open with a probe | beforeCall, recordSuccess, recordFailure, abandon, reset | one probe at a time, the circuit can always close again |
| loop/cli, loop/workspace | workspace registry | create, pause, resume, stop, recover, tick | commands act on the status they looked at |
| infra/persist | lock files, JSON files | `withFileLock`, atomic write, read | at most one holder; no torn file |
| core/auto | wakes of a session, checkpoints, worktrees, cost ledger, scheduler registry | schedule, claim, fence, run, settle, cancel, steer | a wake leads to one turn, by one host at a time; it is never dropped unrun, nor kept for ever |
| subagent | task records, start queue, runners, seats, reserved and spent budget, lineages | spawn, drain, run, cancel, retry, dispose, recover | seats, budget and lineages are never given out twice or lost; every queued task ends; nothing starts after disposal |
| jobs | job records in memory and on disk, slots, chains of writes | submit, run, watchdog, cancel, write, await, recover | one outcome per job, told only when durable; slots hold; everybody waiting is answered |
| kernel: KernelSession, KernelLoop | transcript, counters of recoveries and guards, budget, abort signal | submit, steer, interrupt; query, recover, verify, run tools, stop | every prompt ends with a transcript that can be replayed, verified, within its limits; only what makes no progress is stopped |
| infra/exec, git, fs | shell sessions, worktrees, diffs | host effects | - |
| infra: model-call admission, budgets | in-process queues | admit, release | limits hold |
| core: session store, configuration, memory | history and index of sessions; JSON files | append, replace, load, delete, evict, sweep | a transcript is whole after any crash between history and index |
| robotics, coordination | campaign and team stores | claim, update | - |
| trajectory, reviewer, evaluation, evolution, provenance | audit records | append, analyse | - |
| sandbox, providers, tools, workflow, cli, tui | configuration | host I/O | - |

### How they interact

A daemon (or `loop tick`, or a chat session with an attached scheduler) claims a
*wake* of an instance, asks the host for admission, and calls
`GraphKernel.tick` until the instance is quiescent. A tick is a sequence of
*transactions* on the instance's store: each takes the instance's file lock,
reconciles the journal with its projections, reads a snapshot, appends events,
and releases the lock. Between two transactions of a tick anything may happen:
transactions of another scheduler whose wake claim expired, of an operator
(`loop pause`, `resume`, `stop`), of an event delivery; the process may die.
Executors run between the claim and the finish, all of a wave in parallel, with
a heartbeat that renews the leases and aborts them when they are lost.

A chat session serves one prompt at a time: the loop calls the model, runs the tools
it asks for, and may start sub-agents (each a session of its own, behind the bridge's
seats, queue and budget) and jobs (handlers in the slots of the process, which report
through a chain of disk writes). A turn of an Auto session that parks arms a durable
wake with the length of the history; a detached scheduler, or the attached command,
runs the next turn if the history has not moved on. Several processes may have one
session, one workspace or one provider at a time; they meet only in files.

### What is hard

* a decision taken on a snapshot in one transaction and written in the next
  (`syncDerivedStatus`, `deliverEvent`, `loop resume`, a Join's leader);
* two schedulers with one instance after a lease or a wake claim expired;
* a two-phase finish (`prepareCommit`, then `commit`) with a recovery that
  re-commits whatever a dead worker prepared;
* cancellation, coalescing and closing while workers still run;
* timers, events and join announcements that race each other and get lost;
* limits that several transactions each check on their own;
* records of processes that die, or stall longer than their lease and come back:
  locks, leases, tickets, probes, claimed wakes, jobs and tasks marked as running;
* two files that belong together and are written one after the other: journal and
  projections, history and index, lease and ticket;
* awaits between a check and its effect (a free seat, a due retry, an interrupt), and
  late outcomes of what was cancelled or timed out;
* counters that several recoveries, verification rounds and guards share.

`PROJECT.json` lists each of these hazards at its line, with the properties that
cover it.

## 2. The modules

| Module | Models |
|---|---|
| `GraphStore` | the durable state of one instance and its transactions, each an action with its guards, writes and refusals (`GraphStore.ts`, `CommitCoordinator.ts`). `Next` is any transaction by any caller in any order: what the store promises whoever uses it. |
| `GraphKernel` | extends it with the schedulers' ticks, the executors' results, crashes, operators and event deliveries (`GraphKernel.ts`, `NodeExecutors.ts`, `GraphEventDelivery.ts`, `cli.ts`) |
| `GraphLog`, `GraphJournal` | the event log a transaction relies on, and the files that implement it: journal, counter, two generations of checkpoints, projections, each written in a step of its own (`GraphStore.ts`) |
| `EffectIntents` | one Effect activation: `executeEffect` and the three transactions on its intent, against a provider (`NodeExecutors.ts`, `GraphStore.ts`) |
| `WakeStore`, `LoopRunner` | the durable wakes of one loop (`WakeStore.ts`); the daemon's poll, the in-flight ticks, pause and resume, event deliveries, over an abstract graph (`runner.ts`, `daemon.ts`, `cli.ts`, `GraphEventDelivery.ts`) |
| `LoopDaemon` | the daemon lock and the workspace lease that keep one scheduler (`daemon.ts`, `HostSchedulerCoordinator.ts`) |
| `HostAdmission` | tickets, the pump, leases and their renewal, shared by the processes of a machine (`HostSchedulerCoordinator.ts`) |
| `ProviderCircuit` | the circuit of a provider and how a call settles its permit (`ProviderCircuitBreaker.ts`, `MetaAgentGraphAgentExecutor.ts`) |
| `FileLock` | `withFileLock`, each system call a step (`infra/persist/index.ts`) |
| `SessionHistory` | the transcript of a session and its index entry, written by several processes (`core/SessionStore.ts`, `cli/sessionFlow.ts`) |
| `AutoWakes` | the wakes of an Auto session, the scheduler and the attached command (`core/auto`, `cli/singleTurn.ts`) |
| `SubAgents` | admission, queue, runners, cancellation, retry, disposal (`subagent`) |
| `JobManager` | submission, slots, watchdog, chain of writes, waiting callers, recovery (`jobs`) |
| `ConversationLoop`, `StallGuards` | the loop that serves a prompt (`KernelSession.ts`, `KernelLoop.ts`, `ToolOrchestration.ts`); its guards against no progress (`KernelLoop.ts`, `AutoStallGuard.ts`) |
| `SmallGraphs`, `MCGraphKernel`, `MCGraphs` | small graphs, one for each mechanism; `GraphKernel` over one of them, and over four of them |
| `MCFiles`, `MCRecovery`, `MCHost`, `MCSessions`, `MCConversation` | compositions and requests for the runs |
| `GraphStoreProofs`, `GraphKernelProofs` | theorems about the store under any caller, and about the scheduler's program: that it implements the store, and what it reads |
| `FilesProofs` | theorems about `FileLock`, `SessionHistory` and `GraphJournal`: exclusion, whole transcripts, the files implement the log |
| `WakeProofs`, `HostProofs` | theorems about `LoopRunner`; about `HostAdmission`, `ProviderCircuit` and `LoopDaemon` |
| `SubAgentProofs`, `SessionProofs` | theorems about `SubAgents`; about `EffectIntents`, `JobManager`, `AutoWakes` and the four in `MCSessions` |
| `ConversationProofs` | theorems about `ConversationLoop`, `StallGuards` and the two in `MCConversation` |

The modules meet in assumptions. `GraphStore` takes a transaction to be exclusive,
which `FileLock` checks of the lock, and atomic, which `GraphJournal` checks of the
files; `GraphKernel` takes a live instance to be ticked again and again, which
`LoopRunner` checks of the runner, with the tick abstracted in turn; `LoopRunner`
has one daemon, which `LoopDaemon` checks; `HostAdmission` and `SessionHistory` take
the lock as given.

**Focus.** A composition that runs several independent components
(`MCFiles`, `MCRecovery`, `MCSessions`, `MCConversation`, `MCGraphs`) has a variable
`focus`, chosen at the start: the component in focus moves and the others stand
still. The states of the components add up instead of multiplying, every property
is checked of every behaviour of its component, and one run answers for all of them.
Nothing is lost: the components share no state that any of these properties is
about. A **composite property** such as `LimitsHold` or `SettledStays` is a
conjunction of named parts, each stated and commented in its own module.

### State and actions: the graph runtime

| Variable | Code |
|---|---|
| `status` | `GraphInstanceRecord.status`; the code's `initializing` ends before the first transaction of a tick |
| `act` | the activation records, a function of `1..Pool`; an id that has no activation yet is `Unborn`. Ids are taken in order because the real ones are random; `Rank` says how `localeCompare` orders them, and the runs use one increasing and one decreasing |
| `version` | the version of the graph State. What the State contains is data; which version a segment read is what conflicts are about |
| `prepared`, `committed` | commit intents with status `prepared`; the commit keys (activation, continuation) of the journal |
| `evt` | the external event inbox, one delivery id for each event name; `late` names the waits whose deadline had already passed when the event was created, the comparison of `createdAt` and `wakeAt` |
| `cost` | `totalCostUsd` |
| `pc`, `clock`, `todo`, `work`, `signals`, `seen` | what one running tick holds in memory: its program counter, what its one reading of the clock makes due or expired, intents to recover, claimed activations with the lease token, the version read, the result, joins to announce, the derived status |
| `op`, `ops` | a multi-transaction command in flight; the number of commands, deliveries and crashes so far |

Time is not a number: an armed timer becomes *due* when it likes, and a lease is
found expired when a tick says so, provided that the tick's clock reading saw
that claim. So a lease may expire under a live worker, as it does when a process
sleeps.

`ClaimReady`, `ReleaseExpired`, `Park`, `Retry`, `Block`, `FailStop`,
`PrepareCommit`, `ResumeDue`, `ReconcileWaitingJoins`, `RecordExternalEvent`,
`ResumePendingExternalEvents`, `ExpireStaleExternalEvents`, `SetStatus` are the
store's methods of those names. `commit` is four actions, one for each way it
ends: `CommitReplay` (the State moved: execute again), `CommitTerminal`,
`CommitRoute` (with coalesced Join members, spawned targets, or a limit that
exhausts the instance) and `CommitUnrouted` (the routing error made durable).
`resumePausedTerminal` is `ResumePausedTerminal` and `ResumeFails`.

`Tick` follows `GraphKernel.tick` from top to bottom: `TickStart`,
`RecoverIntent` / `RecoverThrows` / `NotifyJoin` / `RecoverEnd`,
`ReleaseClaims`, `ExpireEvents`, `DrainInbox`, `ResumeTimers`, `ReconcileJoins`,
`SyncRead` and `SyncWrite` (two transactions, as in the code), `Claim`,
`ReadSnapshot`, then for each activation of the wave `Execute` or
`ExecuteThrows`, `Finish` (the releasing or preparing transaction) and
`CommitIntent`, interleaved in any way; `WaveEnd`, and the trailing drain and
sync. `Crash` drops what the tick holds.

`GraphJournal` has one variable for each file, `memo` for what a process remembers
between transactions (`repairedThrough`, `prunedThrough`), and `tx` for the
transaction that holds the lock: reading and replaying (`BeginTransaction`), the
repair of projections file by file (`RepairFile`, `FixHeader`), pruning and the
rotation of checkpoints (`PruneFile`, `RotateCheckpoint`, `WriteCheckpoint`), then
the body (`AppendJournal`, `WriteCounter`, `WriteProjection`, `RenewLease`). `Dies`
may fall after any file; `LoseCounter` and `LoseCheckpoint` are files that turn out
unreadable. It refines `GraphLog`: what a reconciliation hands to its caller is
every event ever appended, each once, in order.

`EffectIntents` has a step for each transaction and each call of the provider
(`PrepareEffect`, `SubmitEffect`, `RecordReceipt`, `InspectEffect`, `CompleteEffect`,
`ReportEffect`), by workers of which one may have lost its lease to another, while
the State that the idempotency key is computed from moves.

### State and actions: what keeps a loop running

`LoopRunner` has the poll of the daemon (`PollReconcile` to `PollClaim`, one step for
each call that reads or writes), one program counter for each in-flight wake
(`Start`, the tick from `Housekeep` to `Final`, `ReleaseDone`, `Sweep`, `Retry`,
`GiveUp`), a command between its two transactions, and a delivery between its
three. `Schedule`, `ClaimDue`, `Heartbeat`, `ReleaseWake`, `CancelForLoop` and
`ReconcileOrphans` are the methods of `WakeStore`. Its graph is one activation that is
ready, runs, waits for an event or a timer, and at last ends the instance.

`LoopDaemon` takes `acquireDaemonLock` apart into its system calls (`ReadLock`,
`StatLock`, `RenameLock`, `LinkLock`), takes the workspace lease (`AcquireLease`),
renews both, and stops when the lease is lost. `HostAdmission` has `Stamp` and
`Submit` of a ticket, the pump (`PumpTickets`, one `Grant` at a time, `EndPump` with
the fairness counters), `Claim`, `Renew` and `ReleaseHandle` of a lease, and the
deaths of owner and pump, `DieGranting` between the two writes of a grant.
`ProviderCircuit` has the operations of the breaker and `Leak` for a permit that
nobody settles.

`FileLock` has a process between any two system calls: `Open` (`open(path, 'wx')`),
`WriteToken`, `WriteFails`; when the file exists `Stat`, `Rename`, `Poll`; while it
holds `BeatReads`, `BeatTouches`, `FnEnds`, `ReleaseReads`, `Unlink`. `file` is the
token at the path, `age` the heartbeat periods since its last touch, `silent` how
long the process has not run. `Dies` leaves the file behind.

### State and actions: a session

`SessionHistory`: a client resumes, converses, compacts, and saves in two phases
(`WriteHistory`, `CommitIndex`), either of which may fail or be the last thing it
does; deletion, eviction and the sweep of orphans come from outside. Messages are
numbered. `shared` and `removed` record what the store does not promise to survive: two
processes with the session at once, and a directory that was removed. A client's
`edited` says that its memory no longer begins with what it last saw saved: a
compaction replaced it, a load repaired it, or a commit failed and was swallowed, so
that the saved count is older than the file. The store notices most of this by counts
alone, and rewrites the file from memory. `Slips` is the rest: the edited transcript is
as long as what was saved or longer, and the index has the saved count (or no entry), so
the store appends to a file that the memory does not begin with. Three things lead there:
a compacted transcript that has grown to the saved length before the next
save, a save after a failed commit, and a load that drops a message and fits the index
again. `WriterIsRight` exempts exactly the commit of such a save, and what follows from it
until a rewrite heals the file; that the code writes a wrong transcript
there is reported in section 6. (An edited transcript of *exactly* the saved
length is not saved at all.)

`AutoWakes`: a host runs a turn by hand or from a wake (`ClaimDue`,
`CheckResumeFences`, `TurnStarts`, `Saves`, `TurnEnds`), arms the next one
(`Schedule`, `CheckpointWritten`), settles the wake (`SchedulerSettles`,
`AttachedSettles`, `HandsBack`), and may crash or lose its claim anywhere. `excused`
names wakes retired for a reason of their own (cancelled, or a turn that could not
be saved), `overlapped` a manual turn saved over another one, `stalled` a live
holder without its lease.

`SubAgents`: `record` and `writeChain` are the durable task and the writes that wait
for their turn; `drain`, `runner`, `cancel`, `spawn`, `retry` say at which await each
asynchronous function stands, and `budget` what is reserved and settled. A task asks for
a share of 1; what its session has cost in the end is any of `limits.costs`, and may be
more than the share, up to `limits.dearest` (`_settleBudget` adds it without a cap).
`JobManager`: `job` is the memory, `jobDisk` the disk, `chain` what is still to be written
in order, `lastResort` the write that is not. `SubmitFails` is a first save that throws:
the record stays in memory as "submitted", and its id is never told to the caller, so
nobody waits for it.

`ConversationLoop`: `run` is the local state of `runKernelLoop`, `open` the tool calls
without a result, and each `await` ends a step. `ToolsThrow` is an exception between the
model's tool calls and the append of their results: of the permission question, which is
asked outside the `try` of a tool's execution, or of a listener for trajectory items or
denials. The run then ends as "thrown", its calls stay open, and the session's transcript
is `orphaned` from then on: the model refuses it until a compaction has
summarised the calls. A phase hook stops a run in one of two ways (`Stopped`), and
`Subtype` is what the result says of an ending: a stop that a hook asked for is told as a
success. `StallGuards`: one action is one batch of tools with the guards before and
after it; `batches` is the history the properties judge the counters by.

### Abstractions

* Routing conditions, reducers and plugin code are data: any candidate edge may
  be the first whose `when` holds, and edges in `Graph.faulty` may throw.
* `claimReady` scans greedily in an order the model does not keep; any maximal
  admissible set may be claimed, which includes the code's choice.
* `loop resume` leaves the latest paused Terminal; the model any that may be left.
* The executor's checks of an activation's lifetime budget, its hard-park and
  schema failures are among the results an Agent may report.
* A wait's deadline lies in the future when it is stored.
* `tick` reads its first snapshot and lists the prepared intents in two
  transactions; `TickStart` merges them.
* `Limits.total` equals `Pool` in every run, so the bound is one the code has
  too: births beyond it exhaust the instance.
* In `GraphJournal` a record is told by the event that wrote it, a file is written
  whole (`atomicWriteJson` renames), and the checkpoint is not lost while a pruning
  that a death cut short is unfinished (`LossDuringPrune`; section 6).
* The provider of an Effect keeps the contract of its conformance test: one operation
  for each key, although a repeated submit may answer with another receipt.
* In `LoopRunner` one loop and one activation stand for all: wakes of different loops do
  not meet, and the wake of a loop is for whatever it has to do. A tick's transactions
  that only matter to several activations are merged. Host admission, the wake of the
  wall-clock deadline and the backoff's length are left out.
  A wake's time and a wait's deadline come independently of each other, since a wake
  may have been scheduled for an earlier wait. A record that is done or cancelled
  and that no running tick refers to is as good as none; its id is free again.
* In `FileLock` the random token is the process (`Nobody` once its call has died), and
  reading the owner and comparing it are one step.
* In `LoopDaemon`, `HostAdmission` and `AutoWakes` a lease gets old only while its
  owner is dead or stalled: live ones renew in time.
* `HostAdmission` rebases its counters from `NormalizeAt` on, 2 in the runs, as the
  code does from 10 000; the fairness of a workspace only depends on differences.
* A session of a sub-agent, a turn, a job's handler, the model, tools, hooks and gates
  are choices of results; what they say is data.
* `StallGuards` keeps the order of the code's limits with smaller numbers, and one
  request stands for a batch.

Housekeeping transactions that cannot change anything because the graph has no
event or no join are left out of a tick in the runs of such graphs.

## 3. The runs

| Run | Question | Properties |
|---|---|---|
| `serial` | two schedulers, two serializable updaters, two activations on one Lane: can a late, replayed or recovered segment apply an update computed from a State that moved? do both activations of the Lane ever run? does anything settled live again, or a closed instance keep work? | `KernelTypeOK`, `LaneExclusive`, `ClosedIsQuiet`, `SerializableRead`, `ClosedAbsorbing`, `SettledAbsorbing` |
| `graphs` | one scheduler with crashes over four graphs: does a timed Join fire once and complete? do limits on live activations, timers and cost hold together? is a paused Terminal left once? does an event in time beat the timer (in a graph without Joins)? does a fan-out end, although crashes lose announcements and leave claims? | `LimitsHold`, `JoinsRight`, `ResumedOnce`, `EventBeatsTimer`, `Progress` |
| `wakes` | do claims keep the ticks of a loop apart through a death, throwing ticks, retries and giving up, but for a tick whose wake was cancelled? does a tick touch a wake that is not its own? is what an event resumed handed to somebody? does the number of wakes stay bounded? | `TypeOK`, `OneTick`, `Handoff`, `StaleOwnerFenced` |
| `wakes_live` | is ready work run, whenever an event arrives and its delivery dies? does a timed wait end, although its wake is lost with the daemon, taken back from a live tick, or cancelled? does a loop that stays paused fall silent? | `WorkServed`, `PauseSettles` |
| `files` | do the files of an instance lose, repeat or reorder an event under deaths between any two writes and a lost file, and are its projections right again before the next transaction acts? is a session's transcript whole after crashes between its two phases, failed commits, compactions and repaired loads, but where the counts do not betray an edit? do live processes that time out, fail to write and beat late ever share a lock, or touch another's? | `FilesTypeOK`, `JournalSound`, `LogImplemented`, `WriterIsRight`, `LockKept` |
| `recovery` | after a stall and a death, does a dead lock go? do three daemons end up with one scheduler, and always with one? is a provider's circuit probed by one call at a time, closed only by a probe newer than the last failure, and tried again? | `RecoveryTypeOK`, `OneScheduler`, `OneProbe`, `NewerFailureStands`, `EverythingRecovers` |
| `host` | three processes with ticks of two workspaces, readers and a writer, or overlapping sets beside an adapter, while one dies or stalls anywhere: do the limits of the machine hold, is a grant backed by its lease, does nobody starve? | `HostTypeOK`, `AdmissionSound`, `NoHostStarvation` |
| `sessions` | are seats, shares of the budget, lineages and job slots ever given out twice, or lost, with sessions that cost more than their share and jobs whose first save fails? does an Effect begin one operation, and report what it did? does a wake lead to one turn? does anything settled change? does everything begun end? | `SessionsTypeOK`, `SeatsAndSlotsHold`, `OneRealOperation`, `WakesOnce`, `SettledStays`, `SessionsSettle` |
| `conversation` | does every prompt end; if its run returns, with a transcript that can be replayed, a success that was verified or asked for by a phase hook, in time, and over the budget by no more than its recoveries? do the guards stop every oscillation, and nothing that has not earned it? | `TalkTypeOK`, `RunsEndWell`, `GuardsSound`, `EveryPromptEnds` |
| `pause_gate`, `poisoned_intent`, `lock_reclaim` | three statements of the repository that the code does not keep (section 6) | `PauseGate`, `NoPoisonedIntent`, `MutualExclusion` |

### Bounds

**Graphs.** `Pool` (4 to 7 activations) is `limits.total`, so running out of it is a
behaviour of the code and not an artefact. `MaxSegments` bounds the claims of one
activation: 2 is one re-execution after an expired lease, replay or block, 3 is
one more after that, which the fork needs so that a member can be lost, re-executed
and time out. The fair graph has 9, which no fair behaviour reaches: with two
crashes an activation is claimed at most four times, so the bound never stops a
behaviour that `Progress` is about. `MaxOperations` bounds
commands, deliveries and crashes together: two in the forks (a
crash, and a crash of its recovery), three with operators (pause, resume, and
one of another kind, a delivery, or a crash). `serial` has two schedulers, the
least that overlap; their crashes are covered by the expired lease of a stalled
scheduler that never goes on, which is the same to the other. Its graph has no
Joins and its instance no events, timers, operators or crashes, so `SerialSpec` is
`KernelSpec` without the actions that can never be enabled there; those fire in
`graphs`, which has one scheduler.

**Wakes.** `wakes` has two in-flight wakes of the loop, the
least that overlap, and at most two of a death, a throwing tick and an event.
`wakes_live` has one in-flight wake (other loops hold the rest of the daemon's
slots) and one of a death, a stall, an event with perhaps a lost delivery, and a
pause with perhaps a resume; `NoStranding` says nothing once there was a pause.
Pauses and stalls are not among the disturbances of `wakes`, to keep it small: section 6
tells what two in-flight wakes then do, and the theorems of `WakeProofs` are about all
disturbances at once. Six wakes are more than a loop of these
bounds ever has at once: `TypeOK` says that a free one is left, also in the state
before any `Schedule`. `MaxAttempts` is 2 where ticks throw, one retry before giving
up, and 0 where they do not and attempts make no difference.

**Files.** Two processes, four events, a checkpoint after each event and pruning
one file at a time (`Interval` and `Batch` 1, so that every rotation, pruning and
second generation happens within four events), one death and one lost file. Two
clients of a session with four messages, enough for a transcript to be saved,
compacted and outgrown before the next save, and two of a crash, a failed write or commit,
a repaired load, a deletion, an eviction. Three processes at the lock, two waiters that
can race and a holder, with two calls each; time is counted in heartbeats, three to
`staleMs` as in the code, and a process that does not stall is silent for at most
those three.

**Recovery.** Two processes at the lock, a stall and a death; three daemons, two that
race for what the third left, and one that dies or stalls; three callers and one
leaked permit.

**Host.** Three processes and the three scenarios of the table; `TurnLimit` 1,
`ShareLimit` 2, one death or stall. `MaxLead` 2 bounds how far one workspace may get
ahead of another that asks for nothing; `NormalizeAt` 2 makes the counters rebase
within that.

**Sessions.** Two tasks, of which one may be the retry of the other, in five
configurations: one slot with and without a seat in the queue, a budget for one, one
lineage, and a gate; a session costs its share of 1, or 2 (`dearest`) in the two
where the whole budget is one share; one of a cancellation, an interrupt, a disposal, a failed read or
write, a restart, and two where the budget is for one, so that a cancellation can come
late or fail to be written. Two jobs for one slot, with a queue of none or one; one failed write
or restart and one cancellation; one attempt of a write before the last resort. Two workers and two States for
the Effect, with two of a death, a lost lease and a lost answer. Two wakes, two hosts,
three turns or parks, and one mishap; that two turns of *different* wakes may overlap
(section 6) takes a fourth, and the theorem about `WakesOnce` has no such bound.

**Conversation.** Two prompts, one interrupt, time limit or abandoned reader, budget
for three replies, and one or two of each recovery. Five batches for the guards, with
two requests: the longest window plus one.

Every property of every run has a mutant: a plausible bug in the
modelled code that the run finds, so the bounds reach the case the property is
about. For a composite property that is one mutant, in one of its parts. `CHECK_DEADLOCK FALSE` is set where the system may stop: a finished instance,
a closed bridge, a settled Effect, an exhausted bound.
Schedulers are symmetric in `serial`, and processes and clients in `files`: both check
only invariants and action properties.

### Fairness

`GraphKernel` assumes weak fairness of each scheduler's `Tick`: the wake of a live
instance is rescheduled and the daemon polls (`runner.ts`, `daemon.ts`). It
assumes weak fairness of the clock. It assumes strong fairness of
`ReleaseClaims` with all running activations: a claim that nobody renews is past
its lease when some later tick looks; while its own worker lives, the tick that
released it would be another one's. Crashes, operators and the results of
executors get no fairness, and crashes are bounded, since a process that dies in
every tick makes no progress in the code either.

`LoopRunner!FairSpec` assumes that the daemon polls and runs its
ticks (another daemon takes the place of a dead one), that leases, deadlines and
wakes come due, that a command once begun writes its second half, and that a
source repeats a delivery that did not return (its contract in
`GraphEventDelivery.ts`). Operators need not pause or resume, events need not
come, and ticks need not throw.

The others assume that a live process takes its next step, and that time passes:

* `FileLock`: processes go on, with their heartbeat, and files age.
* `LoopDaemon`: daemons are started again when they exit (a service manager, or the
  user), and locks and leases age when nobody renews them.
* `ProviderCircuit`: a call that was admitted ends and settles its permit; callers
  keep trying, so that a due circuit gets its probe; a cooldown ends. `Leak` is not
  fair and bounded.
* `HostAdmission`: a poller pumps from time to time; `Claim` and `ReleaseHandle` are
  strongly fair, because the lock they need is taken by others again and again, and
  a waiter of `withFileLock` polls until it gets it; holders release, since every
  call under a lease has a time limit.
* `JobManager`: handlers settle (a watchdog aborts them), the disk answers, a
  restarted host recovers. `SubAgents`: awaits return, sessions end (they have a time
  limit), and a new bridge fails what an old process left. `EffectIntents`: workers
  run, timers come due, and the provider's operations end. `AutoWakes`: hosts go on,
  wakes come due, leases that nobody keeps lapse, and a scheduler is started in the
  workspace again and again.
* `ConversationLoop`: the loop goes on as long as its reader asks for events; model,
  tools, hooks and gates have timeouts of their own.

In `MCSessions` one condition stands for a condition of each component: a behaviour
is about one of them, and in it the condition is that component's.

## 4. The proofs

Eight modules hold the theorems; each extends the modules it is about, and none replaces
a constant, so what is proved is proved of the very formulas that TLC checks, for every
value of the constants: any number of schedulers, processes, wakes, callers, jobs, tools
or events, any graph, any limits, and no bound on the number of steps. Assumptions on
constants are the named `...Assumption` of the modules (TLC evaluates them in the runs),
and three explicit ones told below. Each theorem is proved the same way: an inductive
invariant, one lemma per action or group of actions, and one temporal step at the end.
What follows is what each invariant says beyond the property, because that is what the
property rests on.

### GraphStore (`GraphStoreProofs`): any caller, any order

| Theorem | States |
|---|---|
| `TypeCorrect` | `TypeOK` is invariant |
| `ClosedQuiet` | `ClosedIsQuiet`: a done or exhausted instance has no live activation |
| `ClosedForGood` | `ClosedAbsorbing`: nothing moves such an instance |
| `SettledForGood` | `SettledAbsorbing`: a settled activation never lives again |
| `LanesAreExclusive` | `LaneExclusive`: no two running Agents share a Lane |
| `CapacityHolds` | `WithinCapacity`: what runs stays within the limits of the instance and of each node |
| `TimersAreBounded` | `TimersWithinBudget`: no more timers than `maxPendingTimers` |
| `ResumesAreOnce` | `ResumedOnce`: a paused Terminal is left once |
| `JoinsFireOnce` | `JoinsOnce`: a Join fires once for its fork group, if `JoinsAreEntered` |

The inductive invariant is `Inv == TypeInv /\ ClosedIsQuiet`. `TypeInv` adds to
`TypeOK` that every born activation is at a node of the graph (without it
`NodeOf` of a live activation need not exist, and neither its type nor its Lane
would be defined) and that an unborn one has no segment. `ClosedIsQuiet` has to be
part of it: a transaction on a held
claim does not look at the instance status, and only the absence of running
activations keeps it from reviving a closed instance. The argument classifies
what a transaction may do to one activation: it *continues* it (to a status
reachable from its own, at the same node, with the same segment and version, never to
`running`) or *begins* an
unborn one (`Evolving`), or the transaction is `ClaimReady`, the only one that
*starts* activations (`Starting`). Each transaction is shown once to be of one
of these kinds; the theorems then need no case split over transactions.
`LaneExclusive` and `WithinCapacity` are inductive relative to `Inv`: evolving
transactions only shrink the set of running activations, and a claim is measured against
all that runs (`ClaimsFreeLanes`, and counting with `FiniteSetTheorems`).

*Timers.* A transaction either sets no timer, or one where the budget has room, or only
ends and clears them (`TimersMove`); that a coalescing commit or an expiry ends several
activations at once can only lower the count.

*Resumes.* Activations come about in a commit that is routed and in leaving a paused
Terminal. A commit is never routed over a resume edge; leaving a Terminal marks it, and
gives every target of each resume edge one activation (`GraphAssumption`: route ids are
unique, `GraphValidate.ts:39-53`; limits are positive, `:100`). So the activations born by
a resume edge at a node, `BornBy`, never outnumber the Terminals left, `LeftAt`.

*Joins.* `JoinsSettle` strengthens `JoinsOnce`: when a member of a fork group has
succeeded at a Join, no other member there is alive or succeeds. A success coalesces all
live members of the group, and a later commit routes nothing into a Join that fired
(`AlreadyJoined`). Leaving a paused Terminal has no such filter
(`CommitCoordinator.ts:308-383`, against `:237-241`), and the commit by which a Join fires
decides on the snapshot *before* it; hence the hypothesis `JoinsAreEntered`: no Join is
its own successor, and no resume edge enters a Join. The graphs of the runs satisfy it.

### GraphKernel (`GraphKernelProofs`): the scheduler's program

| Theorem | States |
|---|---|
| `KernelImplementsStore` | `KernelSpec => Spec`: ticks, operators, event sources and crashes are, seen from the store, its transactions; the nine theorems above hold of the kernel |
| `KernelTyped` | `KernelTypeOK`: what a tick in flight holds keeps its type |
| `SerializableReads` | `SerializableRead`: in a serializable graph an output that advances the State was computed from that State, or is not used |
| `JoinsHaveAll` | `JoinHasAll`: a Join that reports success had a member from every transition it waits for |
| `LimitsAreKept` | `LimitsHold`: `WithinCapacity`, `TimersWithinBudget`, `CostBounded` |
| `JoinsAreRight` | `JoinsRight`: `JoinsOnce` and `JoinHasAll`, if `JoinsAreEntered` |

`KernelInv` adds to `Inv` the types of what schedulers hold, without which a claim or an
intent could name an activation that never existed, and `Known`: a claim in memory
is no newer than the record's latest segment; a worker whose claim nobody has taken over
has read a State no older than the one of its claim; a running activation's lease is
that of its latest segment; every intent, prepared or in memory, was computed from a State
no older than its claim and no newer than the present one. A commit of a serializable
graph demands that the State is the one of the *claim*; between the claim's version and
the present one there is then no room for the version read. A segment that is stale for
another reason may still end its activation as exhausted, with its output unused; the
property says so.

*Joins.* `Honest` says of every intent, prepared or in memory, that a success of a Join
gathered a member from each expected transition (`Gathered`), and that the usage it
reports is one that its kind of node can have (`Price`). What a step can teach a scheduler
(`Teaches`) is small: the snapshot, a claim, an outcome computed from the snapshot. That a
member was born at the Join is a fact that no transaction takes back (`BornStays`), although
the member may be coalesced before the success is committed.

*Cost.* The cost alone is not inductive: a segment is charged long after it ran. `Owing`
are the running activations whose worker has finished a segment below the limit and will
hand the claim back, to block or to retry, with what it cost. Above the limit nobody
starts to owe (`NobodyNewOwes`: `WithinLimits` turns whatever finishes later into
`exhausted`), and when the limit is crossed at most `running` activations owe
(`WithinCapacity`). `Charges` counts the charges that may still come: for each that owes its
own, and one more, because `block` may reopen a failed instance and `loop resume`
reactivate it for a commit; and, as long as the instance has not failed, one commit. `Spent`
says that above the limit the cost and what may still be charged stay below the bound,
`(2 * running + 1) * u` above the limit, where `u` is the dearest segment.

### The files (`FilesProofs`)

| Theorem | States |
|---|---|
| `LockExcludes` | `LockKept`: `MutualExclusion`, `HolderOwnsFile` and nobody's file touched by another, if no process dies (`MaxCrashes = 0`) and none is silent for `staleMs` (`~Stalls`) |
| `FilesAreRecoverable` | `JournalSound`: the next transaction can read the log, and its projections are those of the log, if `~LossDuringPrune` |
| `FilesAreALog` | `LogImplemented`: journal, counter, checkpoints and prunings implement `GraphLog`, if `~LossDuringPrune` |
| `TranscriptIsWhole` | `WriterIsRight`: who has a session for itself leaves its whole transcript, unless the save in hand slipped (`Slips`) |
| `FilesTyped` | `FilesTypeOK` of the composition, if `~LossDuringPrune` |

*The lock.* The run `lock_reclaim` shows that the first proviso is needed, and it is the
reason why the theorem has it as an assumption. The
inductive invariant says that the file at the path always belongs to a process that
created it and has not let go, that its age is at most the silence of its owner
and so never beyond the stale limit, and that therefore no waiter is ever on its
way to the rename; two holders would both own the one file.

*The journal.* The refinement maps the files to the length of the log and the latest event
of each record. The invariant, `JournalInv`, says that there *is* such a log: a length `n`
and for each record its latest event `f`, with which everything on disk and in memory
agrees (`Sound(n, f)`). `Numbered`: the newest journal file is `n`, and the counter, where
there is one, is not ahead of it and lacks no file after it. `Generations`: the checkpoint
holds `f` as of its own number and no journal file after that number is missing, so that
replay gives `f`; the older generation does the same unless a pruning was cut short.
`Knows`: what the transaction in flight has read of all that at the point it has reached.
`Projected`: every projection is `f`'s, except for the event being written, what a dead
process left (which its checkpoint does not cover yet), and what is torn. Reading a log is
replaying it from the best generation, so the proof first shows that whatever satisfies
`Sound(n, f)` replays to `n` and `f` (`LastIs`, `ReplayIs`); then each write of a
transaction either leaves `(n, f)` alone or appends, which are the two steps of `GraphLog`.
`LossDuringPrune` is the window of section 6 in which the code cannot recover.

*The transcript.* `Sole`: as long as no two clients had the session open at once
(`shared`), only one has. `Remembers`: the memory of an open client that has not edited it
is, up to the length it last saw saved, the transcript on disk, and a client between the
two phases whose save did not slip has its whole memory there. `AppendsTheRest` is the fact about sequences that makes an append of
the unsaved rest give the whole.

### What keeps a loop running (`WakeProofs`)

`TicksApart` (`OneTick`) and `NobodyDropsAnothersWake` (`StaleOwnerFenced`), for any number
of wakes, runners and disturbances. While no claim is let expire (`ClaimsSound`), a
runner that has not released its wake finds it claimed by itself, or cancelled; one that
has, finds it free until it goes idle; no two runners refer to one wake; and at most one
claim is alive, since `claimDue` claims for a loop only when none of its claims is. The
methods of `WakeStore` are shown once to change wakes *mildly* (what somebody refers to
changes only when pending, expired or cancelled, and no claim comes about), and the
actions of runner, daemon and operators then follow from that.

### The machine and its recovery (`HostProofs`)

`MachineIsNotOvercommitted` (`AdmissionSound`) and `HostTyped`. The limits alone are not
inductive: a granted ticket keeps its lease only because ticket and lease are written,
withdrawn and reaped together. `Agreed` says for each phase of an owner which of its
ticket and lease may be there, `Pumping` who may be in the middle of a pump. A grant is
measured against the leases and the tickets ahead of it, and adds one lease to a set whose
cardinality was below the limit (`OneMore`, `FewerLeases`). `NormalizeAt`, `MaxLead` and
the number of faults play no part.

`OneProbeAtATime` and `FailuresStand`: a probe that no failure has overtaken is the one the
circuit names, and the one it names is a probe. `OneSchedulerAtATime`: a running daemon
that is not overdue owns the lease, and only the lease of an overdue daemon gets old; so
whatever two daemons do to the lock *file*, the workspace lease decides.

### Sub-agents (`SubAgentProofs`)

| Theorem | States |
|---|---|
| `SeatsAndBudgetHeld` | `AdmissionHolds`: seats, shares of the budget and lineages are never given out twice, and a reservation has somebody who will settle it |
| `DisposedBridgeIsQuiet` | `QuietAfterDispose`: no session is submitted once `dispose` has begun |
| `SubAgentsTyped` | `SubAgentTypeOK` |

For any number of tasks and any limits. `BudgetHeld` does not say that what was spent and
reserved is within the budget, which is false of the code: a session is paid for what it
has cost, beyond its share if need be. With `dearest` a bound of what a share may cost,
it says that `spent + reserved * dearest <= total * dearest`; so whatever is settled and
admitted meanwhile, the only excess is that of sessions over their own shares. With
`dearest = 1` it is the plain limit. None of this is inductive by itself, because a
task passes through several hands (the spawn, the queue, the drain, a runner, up to two
cancellations, a retry), each of which awaits the disk and goes on with what it read before.
The invariant (`AgentInv`) says who has a task in hand:

* `ChainSound`: the chain of writes of a record has each kind of operation at most once, and
  whoever posted it waits for it; so the operation at the head belongs to a spawn, a runner or
  a cancellation at a known place, and an outcome is written only under a runner that ends;
* `PlaceSound`, `DrainSound`: a task is not handed out before its record is written, not in
  the queue once it has a runner or a cancellation was posted, and what the drain reads or
  marks is what it took, with a slot still free and the lineage still unused. `DrainSound`
  is what carries the check *before* the drain's await to its effect after it;
* `RunnerSound`: a runner without a seat, or with a cancellation posted, has been aborted
  and has not submitted its session, and after `dispose` every runner has been aborted: this
  is why a cancelled task may free its seat at once and nobody works beyond the slots;
* `BudgetSound`: what is reserved is not settled, and is with a spawn, in the queue, with a
  runner or with a cancellation that was posted, each of which settles it (`NoLeak`); what an
  ordinary task was admitted with stays reserved until it is settled, so that it is settled
  once;
* `SeatsSound`, `PurseSound`, `LineageSound`: the counts, with the tasks that were admitted
  but not yet queued, and without those that were aborted; one task of a lineage executes.

That `startQueue` may hold a task that has left `queuedStarts` (a cancellation does not
search the queue) is allowed for: the drain passes it over (`Runnable`).

### A session (`SessionProofs`, `ConversationProofs`)

`SessionsTyped`, `NothingGivenTwice` and `OutcomesStand` state `SessionsTypeOK`,
`SeatsAndSlotsHold` and `SettledStays` of the composition `MCSessions`, and `TalkTyped`
states `TalkTypeOK` of `MCConversation`: a behaviour of the composition is a behaviour of each
component (`EachOnItsOwn`), of which the theorems below and those of `SubAgentProofs` speak.

`EffectIsOne` (`OneRealOperation`) and `ReceiptIsFinal` (`FirstReceiptStands`, which
`SettledStays` contains): every operation at the
provider and every worker's submission has the key of the one intent; no worker holds a
receipt other than the intent's, once that is recorded; and who reports success has seen
the operation succeed.

`JobsAreSettledOnce` (`JobTypeOK`, `SlotsHold`, `OneOutcome`, `DiskInOrder`,
`ToldWhenDurable`, the parts of `SessionsTypeOK`, `SeatsAndSlotsHold` and `SettledStays`
that are about jobs): the slots taken are exactly the handlers that run; the queue
holds each queued job once; a job with an outcome has nobody left who would give it another
(`Decided`); and revisions ascend from the disk through the chain of writes to memory
(`Revisions`).

`EveryRunEndsWell` (`RunsEndWell`) speaks of runs that return; that a run which throws may
leave calls open is part of the invariant. `CallsSound` says where calls may be open
(before and in a batch, and after an exception of it), `LateSound`
that what was taken up after an abort is the last batch, `TurnsSound` that a run goes back
to the model below its limit, and `CostSound` that every reply paid for beyond the budget is
charged to a recovery, of which there is a fixed number.

`GuardsAreSound` (`GuardsSound`), for histories of any length. The guards keep counters and
short windows and are judged by the whole history, so the invariant (`GuardInv`) says what of
the history each holds. While the run goes on, `polls` is the length of the series of equal
requests at its end (`InSeries`), and if no poll was seen in it, `repeats` is that length too
and nothing in the series was new but perhaps the last result (`Counted`); the two windows are
ends of the history (`Remembered`, `Windowed`), and what slides out of one never comes back.
`Warned` needs `SoftLimit < FailureLimit`, an assumption here because it is a fact about two
numbers written side by side (`AutoStallGuard.ts:18-20`): with them equal, the run would stop
in the very turn in which it is asked to evaluate itself. `Reflected` says that an error that
was forgotten lies a clear window behind every reflection on it. That requests equal at a
distance of two alternate from the first on (`TwoInTurn`) is an induction over positions; it
is proved by a least counterexample (`LeastMember`, from the well-foundedness of `<` on the
naturals).

`WakesLeadToOneTurn` (`WakesOnce`), for any number of wakes, hosts, turns and mishaps. A
claim is a wake and the number of times it was claimed, which stands for the claim's token
(`attempts`). The invariant (`AutoInv`) says:

* no two hosts ever took the same claim (`ClaimsApart`), because a claim is taken with a
  number that no host has for that wake (`Counted`);
* while no live holder has lost its lease, a host that works on a wake, or has armed the
  next one as an attached command, has that wake's *last* claim, and the record is still
  leased to it unless it was cancelled (`Secured`); so two hosts in a turn of one wake would
  have one claim between them. Of schedulers at most one has a claim at all
  (`SchedulersApart`), since `claimDue` looks for claims of the session before it takes one;
* who asks the fences knows the fence of its wake, and no fence is ahead of the history
  (`Fenced`); a wake that starts its turn has not run (`Turned`), and one that has run has
  its fence behind the history (`TimerSound`), so that no later claimant passes the fences;
* who releases a wake as done knows that it ran, that its turn could not be saved, or that
  the history has moved on, and a wake that is done or cancelled without a turn has its
  fence behind the history or an excuse (`Turned`, `TimerSound`).

A step of one host is nobody else's if it leaves the claims of the others alone, and it does
that to a record that nobody holds, that is somebody else's, or whose own claim it is
(`Sees`, `Bystander`, `HostMoves`, `MildlySeen`); with that, each action is about its own
host and record.

### What is only model-checked

* **Liveness** (`Progress`, `WorkServed`, `PauseSettles`, `EverythingRecovers`,
  `NoHostStarvation`, `SessionsSettle`, `EveryPromptEnds`): fairness and `ENABLED` are out
  of the prover's reach. So are the library's induction theorems, which take an operator as a
  parameter; what had to be proved by induction is proved with a least counterexample, and no
  module uses a `RECURSIVE` operator.
* **Properties with a bound of the model inside.** `LoopRunner.TypeOK` says that a free wake
  is left, which holds of the six wakes of the run and not of all numbers; its types are
  proved (`RunnerTypes`, part of `WakesInv`).
* **Whole ticks.** `Handoff` relates the status of a loop to its wakes, and `EventBeatsTimer`
  the inbox to timers, through all the steps of a tick; they are checked with the
  disturbances of their runs. `Handoff` is no theorem: it holds of any two disturbances
  (of two and of three daemon slots), and a death, a tick that gives up and an event
  together break it among three slots (section 6).
* **Composite types and graphs.** Of `RecoveryTypeOK` each part is proved (`OneProbeAtATime`,
  `OneSchedulerAtATime`, and of the lock within `FilesTyped`), not the conjunction.
  `LimitsHold`, `JoinsRight` and `ResumedOnce` of `MCGraphs` are those of `GraphKernel` over
  chosen graphs; the theorems state them of `GraphKernel` over every graph.

## 5. Not modelled, and why

* **Data**: graph specifications, lint and expressions (`loop/graph/spec`,
  `loop/expr`), distillation and packs, prompts (`core/dynamicPrompt.ts`), what an Agent
  is asked and answers, memory. They are pure functions of large inputs whose
  correctness is about their content; what they decide is a choice in the models.
* **Effects on the host**: `infra/exec`, `infra/git`, `infra/fs`, sandboxes, tools,
  providers, workspace identity. What they do is outside the program's state.
* **Records that decide nothing**: trajectory, provenance, reviewer, evaluation,
  evolution. They are written beside the transitions and read offline.
* **User interface**: `cli` and `tui` but for the turns and snapshots named above.
* **Corners of what is modelled**: sub-agent tasks that ask for no budget at all or for
  unequal shares; a caller that finds a job whose first save failed with `list()` and
  awaits it (it waits for as long as the process lives).
* **Candidates that remain**: `LaneManager` (session and workspace of a Lane),
  `infra/modelCallAdmission.ts` and budgets, the stores of robotics campaigns and teams
  (`robotics/team/TeamStore.ts`, `coordination`), the approval and verdict channels of
  sub-agents, recovery forks of an instance, context compaction.

The definitions stand for a few per cent of the implementation's lines, and they will
not stand for most of them: of the 122 000 lines the larger part is prompts, schemas,
rendering, tools, domain code and its data, where there is no protocol to model, and
in the components that are modelled much is formatting, validation and logging.
`PROJECT.json` says for every component what is left out.

## 6. Findings

* **`pause_gate`**: `syncDerivedStatus` reads a snapshot in one transaction and
  writes the derived status in another (`loop/graph/runtime/GraphKernel.ts:571`).
  `loop pause` in between is overwritten with `active`: the instance runs on
  although the comment at lines 298-299 calls a paused graph gated.
* **`poisoned_intent`**: two members of one timed Join that time out in the same wave
  both prepare; the first commit coalesces the second member, whose intent stays
  `prepared` and can never commit (`CommitCoordinator.ts:301`): as long as the
  instance runs, `recoverPrepared` throws at the start of every tick.
* **`lock_reclaim`**: `rename(lockPath, claimPath)` (`infra/persist/index.ts:420`) takes
  away whatever is at the path, not the stale file that `stat` saw. After one
  death two waiters can both find the lock stale; the second renames the fresh
  lock of the first away and enters beside it. The comment at lines 404-407 says
  that exactly one process wins.

Also met while modelling; no run checks these, and the runs exclude or allow for them.

Graph runtime and its wakes:

* `block` writes `paused` without looking at the status (`CommitCoordinator.ts:632`),
  so a peer of the wave in which another Agent fail-stopped turns `failed` back into
  `paused`. `Final` status is therefore claimed to be absorbing for `done` and
  `exhausted` only (`ClosedAbsorbing`).
* The cost may pass its limit by more than what was running: `block` reopens the instance
  that `enforceExecutionLimits` failed, `loop resume` reactivates it, and it is charged once
  more. With two schedulers and one activation at a time TLC reached two segments above the
  limit; `CostBounded` states a bound that is true, and proved.
* `commit` filters routes into a Join that has fired (`CommitCoordinator.ts:237-241`),
  `resumePausedTerminal` (`:308-383`) does not: a resume edge into a Join can fire it
  again. `JoinsFireOnce` excludes such graphs by its hypothesis.
* A tick with kernel failures schedules the next wake before it throws: when another
  activation is ready, the failed wake's backoff is bypassed (`GraphKernel.ts:271`).
* A process that has just started (`loop inspect`, `loop tick`) replays events since the
  checkpoint over projections whose lease was renewed meanwhile, which
  `GraphStore.ts:1034` means to avoid; a checkpoint lost while a pruning is cut short
  leaves a gap that no later transaction can read (`GraphStore.ts:867`,
  `LossDuringPrune`); a process that dies while it repairs leaves a stale projection to
  processes that remember having repaired it (`torn`).
* `loop pause` cancels the claimed wake of a tick in flight along with the pending ones
  (`WakeStore.ts:285`), and after `loop resume` nothing shows that the old tick still
  runs: a second one starts beside it, although `WakeStore.ts:7` promises at most one
  tick in flight per loop. The sweep of a tick that gave up does the same
  (`runner.ts:194`): a death, a tick that throws and an event are enough. `OneTick`
  therefore speaks of ticks whose wake was not cancelled under them (`Overtaken`); that
  nothing else brings two together is proved. Leases of activations still keep the two
  from running the same one.
* The late sweep of a tick that gave up can strand a loop. While it is under way a delivery
  that had looked before the pause reactivates the loop, so that a second and a third tick
  run side by side; the third schedules a wake for ready work, the sweep cancels
  it (`runner.ts:194`), and the second, which has read "waiting" before, writes it
  unguarded (`GraphKernel.ts:571`, the write of `pause_gate`). The loop is then `waiting`
  with ready work and no wake, and no poll schedules one. TLC finds it in
  `LoopRunner` with three slots and `MaxHappen = 3` (death, throw, event); `Handoff` and
  `WorkServed` are therefore claimed within the bounds of `wakes` and `wakes_live` only.
* When a Join is announced, `GraphKernel.ts:134` and `:449` resume *every* timer that is
  due, before the tick drains the inbox: in a graph with Joins a wait for an event can time
  out although its event came in time, contrary to the comment at `GraphKernel.ts:154`.
  `graphs` checks `EventBeatsTimer` of a graph without Joins.
* A wake taken back from a tick has no claim, and `release` refuses only another claim
  (`WakeStore.ts:262`): a tick that slept for longer than the claim's ten minutes still
  marks it done. `StaleOwnerFenced` and `OneTick` are claimed while claims are renewed
  (no "stall" so far). With two
  wakes in flight the same release may drop the last wake of a loop whose status says
  `waiting`, and strand it.
* Two daemons may both rename the same stale daemon lock (`daemon.ts:155-192`); the
  workspace lease then stops the second (`OneScheduler`). After a kill, a restarted
  daemon is refused until that lease has run out.
* A probe whose sub-agent budget is used up never settles its permit
  (`MetaAgentGraphAgentExecutor.ts:125-131`), and a half-open circuit has no time of
  its own: the provider stays refused until an operator resets it. `ProbeEnds`
  speaks of permits that are not leaked.

Sessions:

* Concurrent writers of one session can leave a transcript that is neither's
  (`SessionStore.ts:597`, `:636-638`); `WriterIsRight` is about one at a time.
* One writer alone can leave a wrong transcript as well. `persistSessionSnapshot` tells a
  compacted transcript by its length only (`cli/sessionFlow.ts:149-155`): one that was
  compacted in memory and has outgrown the saved count before the next save is *appended*,
  by the old index, and the file keeps the messages that were summarised and lacks
  the summary, although `SessionStore.ts:680-684` says that after compaction
  append-by-index cannot represent the history; at equal length nothing is
  saved. After a commit of the index that failed and was swallowed
  (`sessionFlow.ts:157-160`) the same messages are appended again. Neither is the divergence
  that `SessionStore.ts:636-638` heals, because the index has the count the caller expects, or no entry.
  TLC finds both in `SessionHistory` when `WriterIsRight` is stated without its exemption.
* A sub-agent's actual cost is added without a cap (`SubAgentBridge.ts:1451-1459`), and a
  session looks at its budget only after a reply is paid for (`KernelLoop.ts:1559`,
  `:2110`): what is spent can pass `maxTotalSubAgentBudgetUsd`. `BudgetHeld` says by how
  much.
* An exception in the middle of a tool batch leaves tool calls without results, although
  `kernel/__tests__/NoDanglingToolUse.test.ts:2-3` says that a session never ends holding
  an unanswered `tool_use`. `canUseTool` is awaited outside the `try` of a tool's execution
  (`ToolExecution.ts:155`; it may throw at `PermissionPolicy.ts:631`, `:652`, `:820`, and the CLI's question
  rethrows, `cli/router.ts:222-225`), and two callbacks run before the results are appended
  (`KernelLoop.ts:1764`, `:1810`, against `:1812`); the `catch` of
  `KernelSession.ts:469-480` adds no results. `NoDanglingCall` exempts such runs, and no other.
* A stop by a phase hook (`phase_hook_abort`) is told as a success, verified or not
  (`KernelSession.ts:946-948`, on purpose by the comment there). `VerifiedSuccess` exempts
  it.
* When the first save of a submitted job fails, `submit` throws but leaves the job in memory as
  "submitted" (`JobManager.ts:222-226`): nobody executes it, and nothing ends it before the
  process does.
* Turns of two wakes of a session may overlap, a scheduler's and an attached command's.
  `claimDue` leaves a session alone that has a claim (`AutoContinuationStore.ts:243-261`),
  but `schedule` gives an attached command the claim of the wake it arms, whoever else has
  one (`:187-207`); and `tasks cancel` takes the claim of a turn that runs on until its next
  beat. The fences do not stop this: they are asked before the MCP servers are connected
  and not again (`singleTurn.ts:343-414`). `OneTurn` is about turns of one wake, and
  of two schedulers; `RunsOnce` and `NothingDropped` hold all the same as long as no turn is
  saved over another (`overlapped`).
* A consumed wake may be queued again by an attached command that stops on a signal
  (`AttachedAutoScheduler.ts:168-174`, against `:149`); a cancellation that races a turn
  about to park still lets the next wake be armed; `reconcileOrphans` can leave two
  pending wakes.
* A cancelled sub-agent may be retried (`SubAgentBridge.ts:1074-1076`), and its tombstone
  overwritten by the runner (`SubAgentRunner.ts:272`). An unreadable record at the start,
  or a cancellation that cannot be written, strands a task and its reservation
  (`lost`).
* A correction accepted late in a run is dropped at the next prompt
  (`KernelSession.ts:596-602`); a run that its reader abandons leaves tool calls without
  results (`orphaned`), and its cost is not counted.
* The repeat guard compares a result with that of the previous batch even when that was
  another request, so that it seldom fires for a poll among other requests
  (`KernelLoop.ts:1676-1677`); a self-evaluation that preceded a stop need not belong to
  the failures that caused it (`:1935-1946`), which is why `WarnedBeforeStop` says "at
  some time".

## 7. Running

    tlc -workers 2 -config serial.cfg MCGraphKernel
    tlc -workers 2 -config graphs.cfg MCGraphs
    tlc -workers 2 -config wakes.cfg LoopRunner
    tlc -workers 2 -config files.cfg MCFiles
    tlc -workers 2 -config recovery.cfg MCRecovery
    tlc -workers 2 -config host.cfg MCHost
    tlc -workers 2 -config sessions.cfg MCSessions
    tlc -workers 2 -config conversation.cfg MCConversation
    tlc -workers 2 -config lock_reclaim.cfg FileLock
    tlapm GraphStoreProofs.tla
    tlapm GraphKernelProofs.tla
    tlapm FilesProofs.tla
    tlapm WakeProofs.tla
    tlapm HostProofs.tla
    tlapm SubAgentProofs.tla
    tlapm SessionProofs.tla
    tlapm ConversationProofs.tla

`PROJECT.json` names the module of each run. A run takes from half a minute to three
minutes (100 000 to 900 000 distinct states), a module of
proofs from under a minute to eight.
