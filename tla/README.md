# Orca orchestration, queues and relay locks in TLA+

A verification project for the protocols of this repository: the multi-agent
orchestration of the Electron main process (a graph of tasks, handed to coding
agents that run in terminals, who report by messages), the outbound queues between
that process and its mobile clients, and the file-system locks by which several
clients share one relay installation on a remote host. Source paths below start at
`src/src/main/runtime/` unless they say otherwise.

Contents: [1 inventory](#1-inventory), [2 modules](#2-modules-and-how-they-correspond-to-the-code),
[3 runs](#3-runs-and-bounds), [4 fairness](#4-fairness), [5 proofs](#5-proofs),
[6 what was found](#6-where-the-code-and-its-comments-disagree),
[7 limits](#7-what-is-not-modelled), [8 plan](#8-plan).

## 1 Inventory

The repository is a desktop application (worktrees, terminals, an editor), its
command line, a mobile companion, SSH and relay transports, and a git-backed
"company brain". Most of its 1.2 million lines are user interface and input/output.
The logic that has states worth enumerating is in the parts below.

| component | state it keeps | operations | status |
|---|---|---|---|
| Orchestration database (`orchestration/db.ts`) | tables `tasks`, `dispatch_contexts`, `decision_gates`, `coordinator_runs`, `messages` (SQLite file, survives restarts) | create and update tasks, create/complete/fail a dispatch, gates, resets, insert and mark messages | modelled but for migrations, heartbeat times and user-interface queries |
| Lifecycle reconciliation (`orchestration/lifecycle-reconciliation.ts`) | none | accept, ignore or suppress `worker_done` and `heartbeat` | modelled |
| Coordinator loop (`orchestration/coordinator.ts`) | per run: stop flag, list of failed tasks, the locals of one tick | tick: messages, gates, dispatching, convergence; stop | modelled |
| Runs and gates RPC (`rpc/methods/orchestration-gates.ts`) | module variable `activeCoordinator` | `run`, `runStop`, `gateCreate`, `gateResolve` | modelled |
| Messages, tasks and dispatch RPC (`rpc/methods/orchestration.ts`) | none of its own; calls that wait | `taskCreate`, `taskUpdate`, `dispatch`, `reset`, `send`, `check`, `ask`, `reply` | modelled |
| Terminal runtime (`orca-runtime.ts`) | handle and pane registries, message waiters, submit timers | issue and remint handles, inject prompts, exit hook, push-on-idle | what orchestration uses |
| WebSocket back-pressure (`src/src/shared/ws-outbound-backpressure-queue.ts`, `rpc/mobile-e2ee-*.ts`) | per channel: array, head, counters, timer; one shared memory budget | enqueue, cancel, drain, dispose, direct sends | modelled; not the channel's handshake and inbound side |
| Remote relay install lock (`src/src/main/ssh/ssh-relay-*.ts`) | on the remote host: version directory, sentinel, `.install-lock`, `.gc-claim` | install, repair, launch, collect old versions, steal stale locks, recover claims | modelled for POSIX hosts |
| RPC call queue, automations, terminal daemon | queues, schedules, sessions | | planned, section 8 |
| SSH sessions, desktop relay, mobile client, brain, user interface, command line | see `PROJECT.json` | | not modelled, with the reason |

How they interact. RPC handlers and the exit hook are synchronous blocks over the
database. `orchestration.dispatch` and the coordinator await the injection of a
prompt between writing a dispatch row and learning whether the worker ever saw
it. The coordinator additionally awaits the terminal listing, the creation of a
terminal, the drift probe and its poll timer; everything else may run in between.
Workers talk back by `orchestration.send`, whose `worker_done` is reconciled at
once and read again by the coordinator later. `check --wait` and `ask` sleep in
the runtime until `notifyMessageArrived` wakes them; push-on-idle types unread
messages into the terminal of an agent that rests. The exit hook fails a dispatch
and also posts an escalation. Rows survive a restart of the application; loops,
awaits, waiters, submit timers and `activeCoordinator` do not. Replies to mobile
clients pass through one outbound queue per channel, and all queues claim from one
budget. Deployers and collectors on different machines share nothing but the files
of the remote host.

What makes it hard, and what would be correct:

* *Identity of a worker.* A terminal answers to a handle that changes with every
  renderer reload and to a pane that stays. Two dispatches in progress must never
  share either one (`DispatchLock`), and a dispatch that ended must never hold a
  terminal again (`LeaseSpec`).
* *Late results.* An injection that is rejected, a report of an earlier attempt,
  an escalation that names only the task, may arrive after a retry, a gate or a
  reset. A task shown as dispatched must have a worker who can complete it
  (`DispatchedTaskHasWorker`), no worker may be left whose report nobody accepts
  (`WorkerIsAwaited`), an accepted report frees the worker that sent it
  (`AcceptedReportFreesWorker`) and its task is not handed out again by what comes
  late (`CompletionIsFinal`), and a reset is final (`ResetIsFinal`).
* *State used after an await.* Free slots and ready tasks are read before several
  awaits and used after them (`ConcurrencyLimit`).
* *Ending.* A stopped run ends wherever its loop was (`StoppedRunEnds`); any run
  ends unless a person must act (`RunEnds`); the row of a run agrees with its loop
  (`RunningRowHasLoop`); and `runStop`, which knows one loop only, knows the one whose
  row is in the table, whatever loops a reset left behind (`RunStopReachesRun`).
* *Reading and waiting.* Between looking into the mailbox and sleeping nothing may be
  missed (`NobodySleepsOverMail`); several readers of one mailbox must not get one
  message twice (`TakenOnce`); a mark stands for a message that somebody got, also
  when a client hangs up, a write fails or the application restarts
  (`NothingIsLost`); an agent gets its mail in the end (`AgentGetsItsMail`).
* *An array with holes.* Delivery, cancellation, compaction, overflow and disposal
  all change one array, its head, two counters, a timer and a shared budget. They
  must agree (`HeadIsFrame`, `ClaimsMatch`, `BytesMatch`, `ParkedIsPolled`), no frame
  may be overtaken or lost (`KeepsOrder`, `NothingSkipped`), memory stays bounded,
  what is parked as well as what the sockets hold (`BudgetMatches`, `BufferBounded`),
  and what is parked leaves (`FramesLeave`).
* *Locks on a remote disk.* Every step is a command that can fail, lose its reply or
  be its client's last; a lock does not say whose it is; it may be stolen when old,
  and moved away with the directory that holds it. Two clients must not write the
  directory at once (`ExclusionUnlessCarried`), a daemon is launched behind a fence
  (`LaunchIsFenced`), nothing in use is collected (`MoveIsSafe`), and what a crashed
  client left behind is recovered (`DeployEnds`).

`PROJECT.json` lists every hazard at its line with the properties that cover it.

## 2 Modules and how they correspond to the code

```
TerminalLease            what the dispatch table promises
     ^ implemented by
Dispatch                 tasks, dispatches, gates, panes: one action per handler
     ^ extends                       ^ extends
Coordinator                          DispatchProofs, MCDispatch
     ^ extends
CoordinatorProofs (with DispatchProofs)          MCCoordinator
     ^ extends
LoneCoordinatorProofs
     ^ extends
CompletionProofs

Mailbox                  messages, their marks, waiting calls, push-on-idle
     ^ extends                       ^ extends
MailboxProofs                        MCMailbox

OrderedLink              what an outbound queue promises
     ^ implemented by
OutboundQueues           the queues of several channels and their budget
     ^ extends                       ^ extends
OutboundQueuesProofs                 MCOutboundQueues
     ^ extends
OutboundBudgetProofs

RelayLock                one relay directory on a host, its deployers and collectors
     ^ extends                       ^ extends
RelayLockProofs                      MCRelayLock

MC...      small instances for TLC
...Proofs  theorems
```

**TerminalLease** is the abstract specification: a lease is granted at most once,
leases held together share no handle and no pane, a lease given back stays given
back. `Dispatch!HeldLeases` is the refinement mapping: the rows in progress.

**Dispatch** is `db.ts` with its callers. `ctxs` is the dispatch table in rowid
order, so "newest row of a task" (`ORDER BY rowid DESC LIMIT 1`) is `IsLast`. A
handle is a pair of a pane and a generation; `gen` says which generation the
runtime answers to, `alive` which panes still have their process. Rows that a
reset removed stay in the sequence as `deleted`, because ids are random and never
handed out again while awaits may still hold them. `sending` holds the dispatches
whose injection is awaited. Operators named like the methods of `db.ts`
(`PromoteReadyTasks`, `CreateDispatchContext`, `FailDispatch`, ...) are put
together into one action per handler. `createTables` corresponds to `Init`.

Three things a reader of the code may not expect, all taken from it: `failDispatch`
looks at no status; `gateResolve` and `taskUpdate` write a status over any other;
completing a task completes only its newest row in progress.

**Coordinator** adds `coordinator_runs` (`runs`), one record per `Coordinator`
object (`loops`: where it is, its stop flag, the locals it keeps across awaits),
`activeCoordinator` (`active`), the coordinator's unread messages (`inbox`) and
the workers that have a prompt and have not reported (`working`). `pc` names the
place of the loop; the places in `Sync` are reached without an await, and while a
loop is at one of them every other action waits (`EventLoopFree`): that is the
run-to-completion rule of the event loop. The places in `Awaits` are the awaits of
`coordinator.ts`. `CNext` is one coordinator with its workers and a person who
answers gates; `OpenNext` adds the callers beside it: dispatches, status changes and
gates by hand, renderer reloads, resets, restarts.

A worker is the environment: it may escalate, ask for a gate, report once, or
exit. A dead pane without a dispatch in progress stands for a terminal that has
yet to be created, so `PaneRestart` is both a new process in a pane and
`createTerminal`.

**Mailbox** is the `messages` table with the handlers and runtime methods around it.
`posts` are all messages ever inserted, in the order of `sequence`; `present` the rows
that no reset deleted, `read` and `delivered` their marks. `calls` are the calls of
`check --wait` and `ask`: *waiting* while they sleep in `waitForMessage`, *notified*,
*timedout* or *aborted* once their promise is resolved. A promise that is resolved
runs on before the event loop serves the next request, so nothing else happens while
some call is woken (`EventLoopFree`); between `notifyMessageArrived` and that
continuation, however, several calls are woken, and they run in any order. `timers`
are the pushes whose Enter key is due. `Push` is `deliverPendingMessages` with all
its outcomes: the terminal refuses the write, its prompt belongs to the user, or the
Enter key follows. The worker's dispatch is a flag, `inProgress`: `Dispatch` has the
rest. `given` and `typed` record what was handed out and typed, for the properties.

Left out: the text of messages, `--peek` and `--all` (they only read), thread ids
given by hand, and rejected reports, which change the text of a message and no mark.

**OutboundQueues** is `createWsOutboundBackpressureQueue` as the channels to mobile
clients use it, with the budget they share. `slots` is the array with its holes,
`head` is `queueHead`; `Settle` is `advanceQueueHead`, `Compact` the `splice` of
`drain`, `Empty` `resetDrainedQueue`. `claims` are the closures that
`claimQueuedBytes` returned and nobody has called; `queuedBytes` and `queuedFrames` of
the budget are not variables of their own but what these claims add up to. A sum is the
number of the units it counts (`Units`, `Total`), which is what the proofs can reason
about and what TLC can count. Each call is one action; only the
loop of `drain` is one action per iteration (`DrainOne`), since each of them writes to
a socket whose `bufferedAmount` the next one reads. `SendDirect` is what goes past the
queue: binary replies and control frames of legacy channels. `onOverflow` ends in
`destroy` and `dispose` and is folded into the step that overflows. `WireTakes` and
`SocketCloses` are the network.

**OrderedLink** is the abstract specification of one such channel, taken from the
header comment of the queue: frames leave in the order in which they were accepted,
and none is dropped while the link is up that its owner did not cancel. The refinement
mapping keeps `last` and `sent`, and reads `pending` off the array.

**RelayLock** is one version directory on a remote host. `tree`, `lock` and `claim`
are what is on its disk. A client's `pc` is the next command it sends: `deployers` run
`deployAndLaunchRelayInner` (install behind `.install-lock`, or repair and launch an
install they found, behind the lock or, when they cannot have it, behind the claim),
`collectors` run `gcOldRelayVersions` of another version. A step is one command with
its three outcomes: it worked, it failed, or it may have worked and the reply is lost
(`Asks`, `Takes`, `DropsLock`, ...); `Stop` ends a client between two commands. The
owner in `lock` exists for the properties and for time; no guard of a command reads
it, because nothing on the disk says whose lock it is. `LockGoesStale` lets a lock
grow old only when its owner has gone on: the stale age (20 minutes) is above the
longest deploy (`ssh-relay-deploy-timing.ts`), and likewise for claims.

Left out: the Windows commands, what npm does, tombstones after the move, and a
detached daemon that comes up later than the failed launch that started it. The steal
script's inner commands are one step, and so are a collector's probe of the lock and
of its age.

Definitions whose comment starts with `Mutant:` are slips a maintainer could make
(a missing guard, an order reversed, an off-by-one). Each stands before the
definition it would replace, and for each property of each passing run there is
one that makes TLC find the property violated. Nothing in the specifications uses
them.

## 3 Runs and bounds

Run from this directory, e.g. `tlc -workers 2 -config MCDispatch.cfg MCDispatch`.

| configuration | states | what it shows |
|---|---|---|
| `MCDispatch` | 390k | all interleavings of the handlers: `TypeOK`, `DispatchLock`, `DispatchedTaskHasWorker`, `AcceptedReportFreesWorker`, `LastDependencyReleases`, refinement of `TerminalLease` |
| `MCCoordinatorSafety` | 2.3M | the closed system: `CTypeOK`, `ConcurrencyLimit`, `WorkerIsAwaited`, `RunningRowHasLoop`, `CompletionIsFinal` |
| `MCCoordinatorReset` | 2.3M | two tasks, two runs, one dispatch, all callers of `OpenNext`: `ResetIsFinal`, `RunStopReachesRun` |
| `MCCoordinatorLiveness` | 253k | `StoppedRunEnds`, `RunEnds` for one task through exits, escalations, gates and rejected prompts up to the broken circuit |
| `MCMailbox` | 327k | two handles, two messages, two calls: `TypeOK`, `NobodySleepsOverMail`, `TakenOnce`, `NothingIsLost`, `AgentGetsItsMail` |
| `MCOutboundQueues` | 42k | two channels: `TypeOK`, `HeadIsFrame`, `ClaimsMatch`, `BytesMatch`, `BudgetMatches`, `ParkedIsPolled`, `NothingSkipped`, `BufferBounded`, `FramesLeave`, refinement of `OrderedLink` |
| `MCRelayLock` | 164k | two deployers, a collector that runs twice, one fault: `TypeOK`, `ExclusionUnlessCarried`, `LaunchIsFenced`, `MoveIsSafe`, `DeployEnds` |
| `MCDispatchExit`, `MCDispatchStranded`, `MCCoordinatorBreaker`, `MCCoordinatorTwoLoops`, `MCMailboxPushedTwice` | | counterexamples, section 6 |

Bounds. Two tasks give a dependency, a second claimant of a slot and of a
terminal. One pane with one remint has two handles, which is what telling handle
from pane takes; two panes are used where workers exist side by side. Two
dispatches are a row and its retry, or two rows competing for one terminal; the
liveness runs have six, more than two tasks can use up before their circuits break
at three failures, so that no behaviour ends because the table is full.
`MCCoordinatorReset` has two tasks and one dispatch: a run over an empty table fails at
once, so it takes a task created after the reset for a second loop to live beside the
first; its workers send reports only, and escalations come from exits. `MaxInbox`
bounds only messages workers send of their own accord; reports and exit
escalations are always accepted. `MaxRemints` also bounds exits in `WorkerExits`,
see section 4. Failure counts saturate at three, the only count the code compares
with. Symmetry is declared in the safety runs only. Deadlock checking is off in
the coordinator's runs because the system may stop: all tasks settled, no run left
to start; in the relay's because nobody may be left to start; in the queues' because
both sockets may be gone.

`MCMailbox` has two messages, which is what it takes to have one withdrawn by the
other, pushed with the other, or taken by a call that the other woke; two calls are
two waiters of one handle, or a check and an ask. The coordinator's prompt is the
user's, the worker's is submitted by timer. Its types are `worker_done` and `heartbeat`
for sends, `decision_gate` from asks, `status` from replies, and `escalation` from the
exit hook. The filter of its checks leaves out `decision_gate`: a check may take the
answer that an ask of the same handle waits for, and may sleep over a question. The
theorems hold for all filters.

`MCOutboundQueues` compacts after two consumed slots instead of 64, so that holes
before, at and behind the threshold occur with three frames. Frames have one to three
bytes, the caps are set so that every one of them is hit: one frame too long, a queue
too long, the budget used up by the other channel, the sockets full. Traffic past the
queue has no bound.

`MCRelayLock` allows one fault anywhere: a failed command, a lost reply, or a client
that stops. That is enough for a lock or claim left behind, a steal that raced, and a
launch without its lock; the theorems of section 5 have no such bound.

## 4 Fairness

`FairSpec` is `CSpec` with:

* weak fairness of each loop: the process does not stop serving timers and promises;
* strong fairness of a successful `ListTerminals`, of `CreateTerminal` and of
  `OpenDispatch`: listing, creating a terminal and being close enough to the base
  branch do not fail for ever. The loop retries each on its next tick, and without
  this a run may honestly poll for ever;
* strong fairness of the workers' reports: somebody who got a prompt reports,
  unless they exit first.

In the other modules:

* `Mailbox`: resolved promises run on (weak); an agent that comes to rest again and
  again is now and then pushed to successfully, and the Enter key does not fail for
  ever (strong, since terminals go and writes fail). Nothing is assumed of checks,
  replies, or agents coming to rest at all;
* `OutboundQueues`: timers fire and `drain` runs on (weak); what a socket holds is
  taken by the kernel, now and then of all sockets at once, and now and then a poll
  comes when there is room (strong): other channels and direct sends may fill the
  sockets again between any two polls, and the code has no reservation against that;
* `RelayLock`: commands return, because `execCommand` has a timeout, and time passes
  (weak); the age of a lock is looked at again and again (strong). Nothing is assumed
  of commands succeeding within the bound on faults.

Nothing is assumed of a person, of prompts being accepted, or of workers not
exiting or escalating. `RunEnds` therefore has `Hindered` in it: a pending gate, a
task whose dependency failed (the loop neither fails such a task nor calls it
stuck), or a task created after its dependencies were completed. Exits are bounded
so that another terminal can be created; the real limit is the number of panes a
user can open, which is none.

## 5 Proofs

The theorems hold for every finite set of tasks, every set of panes and every
bound, every finite set of handles, every finite set of channels, every set of frame
sizes and limits, and every set of clients, under the named assumptions of the modules (`StatusAssumption`,
`BoundsAssumption` and `NoPaneAssumption` in `Dispatch`; `TasksAssumption` and
`LoopBoundsAssumption` in `Coordinator`; `HandlesAssumption`, `RoomAssumption` and
`TypesAssumption` in `Mailbox`; `SizesAssumption`, `CapsAssumption`,
`BudgetAssumption` and `ChannelsAssumption` in `OutboundQueues`; `ClientsAssumption` in `RelayLock`), which TLC
evaluates in the runs. One theorem, and its counterpart for the whole system, needs
more: `WorkerExists` assumes that no operator writes `dispatched` by hand with
`taskUpdate` (`"dispatched" \notin OperatorStatuses`). The command accepts that
status, and a task set to it has no worker, so without the assumption the statement
is false; `MCDispatch` and `MCCoordinatorReset` leave that status out for the same
reason.

*The tables* (`DispatchProofs`). The inductive invariant is `IInv`: `TypeOK`,
`DispatchLock`, and `DispatchedTaskHasWorker` unless somebody may write `dispatched`
by hand. Every action except `DispatchTask` is shown to be a `NoNewDispatch` step:
rows keep their task and worker, none becomes active that was not, and a task that
is `dispatched` after the step was so before with its rows untouched.
`NoNewDispatch` preserves the lock and the worker of each dispatched task;
`DispatchTask` gets the one proof that uses the lock's guard. The same lemma yields
the refinement: a `NoNewDispatch` step is a `Release` of the lease or a stutter,
`DispatchTask` a `Grant`. `LastDependencyReleases` and `ResetIsFinal` say what a step
does to the statuses, so they rest on a second lemma over all actions, `StepEffect`:
a deleted row stays deleted, and tasks are completed only through
`UpdateTaskStatus`, whose promotion looks at every waiting task.

*The system* (`CoordinatorProofs`). `IsTableStep` shows that every step of `OpenNext`
is a step of `Next` or leaves the tables alone, so what is proved of the tables holds
with coordinators, workers, people, resets and restarts around them. It needs the
invariant `CInv`: `CTypeOK` (the mailbox names tasks and workers name rows, or a
report would not be an operation of the tables) and `JobKnown` (a loop whose probe is
awaited knows its task and terminal). `CInv` is inductive for `OpenNext`;
`RunningRowHasLoop` joins it for `CNext` only, since a reset takes the row from under
its loop and a restart the loop from its row. Each place of the loop is shown to move
on or to end the run (`LoopStepMoves`), which is all the invariants need to know.
With `ImplementsTables` the lock, the lease, the accepted report and the promotion of
waiting tasks hold of the whole system and not only of the tables (`OpenLock`,
`OpenLease`, `OpenReports`, `OpenPromotion`).

*The loop that `runStop` reaches* (`CoordinatorProofs`, `OpenRunStop`). `RInv` joins to
`CInv` that a loop which goes on and whose row is in the table has it `running`
(`RecordRuns`), that one row is running (`OneRunning`), and that `activeCoordinator` is
that loop unless it was told to stop (`Reached`). Every step but `StartRun` is shown to
be `RunsFollow`: no row starts to run, and the reference to a loop on record is not
lost. The step to watch is the end of a loop whose row a reset deleted while a second
run has taken its place: it clears the reference only if it is its own.

*How far two findings reach* (`OneLoopUnlessReset`, `OnlyLateTasksStrand`). Two of the
statements that section 6 refutes are proved of the behaviours that avoid the one step
their counterexample needs, so the counterexample shows the only way they fail. Without
`RpcReset`, `OnlyOneLoop` holds through stops, hand-made calls and restarts: no row is
deleted, so all loops are on record. If each `CreateTask` happens before the last
dependency is completed, and `"pending"` is not written by hand, `NoStrandedChild`
holds: no other operation makes a task wait, and promotion misses nobody
(`LastDependencyStep`). This is about whole operations; a kill inside one is in
section 6.

*A coordinator that is alone* (`LoneCoordinatorProofs`). `ConcurrencyLimit` and
`WorkerIsAwaited` rest on what a tick may rely on after its awaits, which is `AInv`. One
loop lives at a time (`OneLive`), so nobody else uses the slots it counted: the tasks
dispatched, the slots left and the pick whose probe is awaited together stay within the
limit (`SlotsLeft`). A worker in progress on a task gated at most once has the newest row
and its task is `dispatched` (`Awaited`). What could break that is a gated task handed
out before its gate is answered, which an escalation makes possible: it sets a blocked
task `ready`. It does so only while the loop reads its messages, and the loop blocks the
task again before it takes its snapshot, so away from the messages every waiting gate
blocks its task (`Quiet => GatedBlocked`). A late prompt failure fails a row whatever
its status is; it is harmless because the row is still its task's newest (`SendOwns`).
There is one lemma per operation of the tables, then one per place of the loop.

*Finished work* (`CompletionProofs`). `failDispatch` makes the task of any row ready, so
`CompletionIsFinal` is about which rows can still fail once a task is completed. The row
of a worker that exits is in progress, hence its task is dispatched or gated
(`Awaited`); an escalation is checked against the task. That leaves the row whose prompt
its loop awaits. `AInv` alone does not exclude that its task is completed meanwhile; what
does is `Unbegun`: a row whose prompt is awaited has neither a worker nor a report in the
mailbox, so nobody completes the task through it, and reconciliation lets nobody
complete it through an older one, because it is the newest (`SendOwns`). The property is
stated for tasks that no gate names: a gate is the one thing that reopens a completed
task, by design when a person asks for it and by accident in the order of section 6. It
also rests on the model's worker starting when its prompt was sent, not before, which is
what the code does: `writeTerminalAgentPrompt` writes the Enter key last, and cannot fail
once it is written.

*The mailbox* (`MailboxProofs`). `IInv` is `TypeOK`, the three listed invariants, and
`PushesAreTyped`: the rows a submit timer will mark delivered have been typed, as long
as they are still in the table. The heart is `NobodySleepsOverMail`: an insert must
wake every waiter whose `Wanted` set it fills, which is `Notified` against
`UnreadMessages` and `ThreadMessagesFor`, and a call goes to sleep only in the step
that found its set empty. `Send` and `Take` share a lemma on what reconciliation
withdraws, because `NothingIsLost` holds only if a withdrawn message is a heartbeat of a
dispatch that is over in the same step.

*The queues* (`OutboundQueuesProofs`). `IInv` is `TypeOK` and, for each channel, four
parts: the ids in the array increase from `head` up to `last` (`ArrayInv`); the counter
and the claims on the shared budget are those of the frames in the array (`CountInv`);
a channel that is being drained is open, any other has its timer exactly when it has
frames, and a dead one has none (`PollInv`); every id accepted by an open channel is
sent, parked or cancelled (`ReachInv`). `Settle` and `Compact` are handled by lemmas
that say which frames an array has after them (the same), so that every operation
becomes one of: a frame is added at the end, one is removed, all are removed. From there
`KeepsOrder` follows step by step: parking accepts, sending accepts and sends, an
iteration of `drain` delivers, the rest stutters or fails.

*Their sums* (`OutboundBudgetProofs`). Because a sum is a number of units, no induction
over the channels is needed: the units of one member of a set are split off from the
rest (`TotalSplit`), so a change at one member changes the sum by the same amount
(`TotalAt`), and two functions that agree elsewhere have the same rest. `BudgetMatches` is not inductive alone: a disposal sets one
queue's counters to zero and gives that queue's claims back, and these are the same
amount only because each queue counts exactly its own claims. `BudgetInv` adds that
(`QueueBudget`, of which `BytesMatch` is a part) and that the claims are finitely many;
that a released frame has a claim of its own, and one only, comes from `CountInv`.
`BufferBounded` needs that a write is admitted against the sum of all sockets in the
step that makes it (`CanSend`), and that the drain loop asks again before each frame.

*The relay lock* (`RelayLockProofs`). `IInv` is `TypeOK`, `HeldClaim` (a client at a
place that follows its claim still owns a claim that is not stale) and, unless a fresh
lock was carried away, `HeldLock` (the same for the lock), `ReliesOnInstall` (a client
past the installation has an installed directory) and `CollectsIdle` (once a collector
has seen the lock open under its claim, clients with the lock have yet to look at the
claim; once it has seen the socket dead, no daemon is alive). Exclusion follows because
two clients cannot both be the owner. There is one lemma per group of steps, and each
uses that stale locks and claims have owners who went on.

| theorem | says |
|---|---|
| `TypeCorrect` | `Spec => []TypeOK` |
| `LockHolds` | `Spec => []DispatchLock` |
| `WorkerExists` | `Spec => []DispatchedTaskHasWorker`, see above |
| `AcceptedReportCompletesItsRow` | `Spec => AcceptedReportFreesWorker` |
| `PromotionMissesNobody` | `Spec => LastDependencyReleases` |
| `ImplementsLease` | `Spec => LeaseSpec` |
| `ImplementsTables` | `OpenSpec => Spec` |
| `OpenTypes` | `OpenSpec => []CTypeOK` |
| `OpenLock` | `OpenSpec => []DispatchLock` |
| `OpenWorkerExists` | `OpenSpec => []DispatchedTaskHasWorker`, see above |
| `ResetsAreFinal` | `OpenSpec => ResetIsFinal` |
| `RunsHaveLoops` | `CSpec => []RunningRowHasLoop` |
| `LimitHolds` | `CSpec => []ConcurrencyLimit` |
| `WorkersAreAwaited` | `CSpec => []WorkerIsAwaited` |
| `OpenLease`, `OpenReports`, `OpenPromotion` | `OpenSpec =>` `LeaseSpec`, `AcceptedReportFreesWorker`, `LastDependencyReleases` |
| `CompletionStays` | `CSpec => CompletionIsFinal` |
| `OpenRunStop` | `OpenSpec => []RunStopReachesRun` |
| `OneLoopUnlessReset` | `[]OnlyOneLoop` of the behaviours of `OpenSpec` without a reset |
| `OnlyLateTasksStrand` | `[]NoStrandedChild` of the behaviours of `Spec` in which no task is created after its dependencies were completed, see above |
| `MailTypes`, `MailNobodySleeps`, `MailTakenOnce`, `MailNothingIsLost` | `Spec => []` the four invariants of `MCMailbox` |
| `QueueTypes`, `QueueHeadIsFrame`, `QueueClaimsMatch`, `QueueIsPolled`, `QueueSkipsNothing` | `Spec => []` five invariants of `MCOutboundQueues` |
| `QueueBytesMatch`, `QueueBudgetMatches`, `QueueBufferBounded` | `Spec => []` the three sums of `MCOutboundQueues` |
| `QueueKeepsOrder` | `Spec => KeepsOrder`: each channel is an ordered link |
| `RelayTypes`, `RelayExcludes`, `RelayLaunchIsFenced` | `Spec => []` the three invariants of `MCRelayLock` |
| `RelayMovesSafely` | `Spec => MoveIsSafe` |

Every safety and action property of the passing runs is proved. Only model-checked are
the liveness properties `StoppedRunEnds`, `RunEnds`, `AgentGetsItsMail`, `FramesLeave`
and `DeployEnds`: they follow from fairness, that is from `ENABLED` of the actions, which
the proof system does not handle.

## 6 Where the code and its comments disagree

Each is a configuration in which TLC finds the statement violated.

* **An exit after a remint is not seen** (`MCDispatchExit`, `orca-runtime.ts:12558`).
  The exit hook looks up the dispatch by the handle the pane answers to *now*.
  After a renderer reload that is another handle than the row's, although the row
  also records the pane. The dispatch stays in progress and keeps the pane locked.
* **A child of completed dependencies waits for ever** (`MCDispatchStranded`,
  `orchestration/db.ts:523`). `createTask` makes a task with dependencies pending
  without looking at them, and promotion happens only when a dependency is
  completed later. Tasks that are created in time are not stranded by any sequence of
  whole operations (`OnlyLateTasksStrand`).
* **One failed dispatch can break the circuit** (`MCCoordinatorBreaker`,
  `orchestration/db.ts:817`). An exit while the prompt is being injected is counted
  by the exit hook, by the rejected injection, and by the escalation that the exit
  hook itself sends; the guide promises three consecutive failures.
* **Two loops at once** (`MCCoordinatorTwoLoops`, `orchestration/db.ts:986`). A
  reset deletes the run row but does not stop the loop, so the active-run check lets
  a second run start; `runStop` then reaches only the newer one. Nothing else has this
  effect (`OneLoopUnlessReset`).

Visible in the models, without a configuration of their own:

* *The collector's re-check does not close every order.* The comment at
  `src/src/main/ssh/ssh-relay-versioned-install.ts:229` says that installers probe the
  claim before and after creating their lock, "closing both orders". A collector with
  its claim finds the lock open; a client then creates its lock; the collector moves
  the directory, with that lock, and releases the claim; a second client locks the
  directory it creates anew; and the first, looking only now, sees no claim and goes
  on. Both install. `carried` records that a move took a fresh lock with it. The
  properties of `RelayLock` say that nothing else breaks exclusion; they say nothing of
  what follows such a move, also when the first client looks in time and backs off.
* *There is no status-update transaction.* `orchestration/db.ts:621` says that
  promotion "runs in the status-update transaction", and the head of the file speaks of
  transactional invariants. The only `BEGIN` of the file is that of its migrations:
  `updateTaskStatus`, `failDispatch`, `createDispatchContext`, `createGate` and the
  resets are several statements that commit one by one. A process that is killed, or a
  statement that fails, between two of them leaves children of a completed task waiting,
  a dispatched task whose row has failed, or rows of tasks that are gone. Nothing else
  runs between the statements, so the models make each operation one step; their
  `AppRestart` comes between operations, and what sections 3 and 5 say of restarts is
  said of those.
* *The exit hook's escalation wakes nobody.* It is inserted without
  `notifyMessageArrived`, so a `check --wait` sleeps over it until its timeout, although
  the comment at `orca-runtime.ts:26943` says that waiters get new messages at once;
  `Wanted` leaves escalations out for this reason.
* *A check returns everything.* `src/skill-guides/orchestration.md:98` says that
  `check --wait` returns one message at a time; the handler returns all that is unread.
* *A gate after a report.* A `decision_gate` message that is read after its sender's
  `worker_done` was accepted blocks a task that is completed
  (`orchestration/coordinator.ts:317`). Nothing promises an order, so no property
  forbids it; `CompletionIsFinal` says that only gates do this.
* *A reply is announced, not pushed* (`rpc/methods/orchestration.ts:357`): an agent that
  rests gets it with its next transition to idle or its next check.

Also visible, without a comment that promises otherwise: a run row
that is `running` when the application quits refuses every later run until a reset
(`RunningRowHasLoop` is checked without `Restart`); a restart while a prompt is injected
leaves a dispatch in progress that nobody was told of, and its task waits until the pane
exits or a person acts (`DispatchedTaskHasWorker` only says that the row is there); a task with a second pending
gate is re-blocked while its dispatch stays in progress, and the worker's report is
then ignored (`WorkerIsAwaited` is stated for at most one gate per task).

## 7 What is not modelled

In the modelled parts: message texts, preambles, priorities, timestamps, heartbeat
times and the stale-heartbeat warning (a log line); reports from a sender without
authority in the coordinator's and the mailbox's modules (the guard is in
`Dispatch!WorkerDone`, where any handle and pane may send); task deletion and
completion notices of the user interface; migrations of the database file; handshake,
keys and inbound frames of the channels; a kill or a failed statement inside an
operation on the tables (section 6); stealers that race inside the steal script; Windows
hosts.

The modules cover what coordinates, which is a small share of the repository's lines:
five sixths of them are React components, terminal and editor views, wrappers of
git and of hosting services, and mobile screens. Their behaviour is rendering, parsing
and input/output around single calls; a state machine of a component would restate its
code without a property that a step could break. The remaining protocols that are worth
a module are in section 8, the other components with their reasons in `PROJECT.json`.

## 8 Plan

Done: `TerminalLease`, `Dispatch`, `Coordinator`, `Mailbox`, `OrderedLink`,
`OutboundQueues`, `RelayLock`, and the proofs of section 5.

1. `CallQueue`: the pool of `src/src/shared/runtime-rpc-call-queue.ts`, its limits per
   selector and in total, and its background calls.
2. `Automations`: schedule, missed runs, one-shot dispatch tokens, restart.
3. `Daemon`: sessions that outlive the application; attach, detach, exit, batching.
4. `RelayLock` for Windows hosts, whose lock is a directory with an owner file.
