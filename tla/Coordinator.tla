---------------------------- MODULE Coordinator ----------------------------
(***************************************************************************)
(* The background coordinator                                              *)
(* (src/src/main/runtime/orchestration/coordinator.ts): orchestration.run  *)
(* and runStop, the polling loop, the mailbox it reads, and the workers it *)
(* dispatches to.  Every write to the tables is an operation of Dispatch.  *)
(*                                                                         *)
(* The main process runs a loop to its next await before anything else     *)
(* happens.  A loop in the middle of such a stretch (it is processing its  *)
(* messages or its gates, which takes several steps here) holds the event  *)
(* loop, and every other action waits for EventLoopFree.                   *)
(***************************************************************************)
EXTENDS Dispatch

CONSTANTS
    MaxConcurrent,  \* tasks the coordinator keeps dispatched at a time
    MaxRuns,        \* bound: rows of the run table
    MaxInbox        \* bound: unread messages beyond which workers wait

ASSUME TasksAssumption == IsFiniteSet(Tasks)
ASSUME LoopBoundsAssumption == MaxConcurrent \in Nat \ {0} /\ MaxRuns \in Nat /\ MaxInbox \in Nat

VARIABLES
    runs,       \* rows of coordinator_runs, by status, "deleted" after a reset
    loops,      \* the Coordinator object behind each run
    active,     \* the module variable activeCoordinator: a run, or 0
    inbox,      \* unread messages addressed to the coordinator
    working     \* dispatches whose worker got the prompt and has not reported

coordination == <<runs, loops, active>>
cvars == <<vars, runs, loops, active, inbox, working>>

RunIds == DOMAIN runs

(* Where a loop is; Sync are the places it passes through without awaiting. *)
Sync == {"messages", "next", "converge"}
Awaits == {"list", "create", "probe", "send", "sleep"}
Places == Sync \cup Awaits \cup {"done", "dead"}

(* The task being handed out and the terminal it goes to, or neither. *)
Jobs == {<<>>} \cup (Tasks \X Handles)

(* `broke' says that the loop has seen a task fail for good. *)
Loop ==
    [pc : Places, stopped : BOOLEAN, broke : BOOLEAN,
     todo : SUBSET Tasks, targets : SUBSET Handles, slots : 0 .. MaxConcurrent,
     job : Jobs, ctx : 0 .. MaxDispatches]

Message ==
    [type : {"worker_done", "escalation", "decision_gate"}, task : Tasks,
     ctx : 0 .. MaxDispatches]

EventLoopFree == \A r \in RunIds : loops[r].pc \notin Sync

(* Loop r takes a step from place `from': no other loop holds the process. *)
At(r, from) ==
    /\ loops[r].pc = from
    /\ \A q \in RunIds \ {r} : loops[q].pc \notin Sync

Goto(r, to) == loops' = [loops EXCEPT ![r].pc = to]

(* What a loop keeps from one tick to the next. *)
Between(r, to) ==
    [pc |-> to, stopped |-> loops[r].stopped, broke |-> loops[r].broke,
     todo |-> {}, targets |-> {}, slots |-> 0, job |-> <<>>, ctx |-> 0]

Running == {r \in RunIds : runs[r] = "running"}

Existing == {t \in Tasks : HasTask(t)}

DispatchedTasks == {t \in Tasks : tstatus[t] = "dispatched"}

Settled == \A t \in Existing : tstatus[t] \in {"completed", "failed"}

-----------------------------------------------------------------------------
(* orchestration.run and orchestration.runStop *)

CInit ==
    /\ Init
    /\ runs = <<>>
    /\ loops = <<>>
    /\ active = 0
    /\ inbox = <<>>
    /\ working = {}

(* A run over an empty task table fails at once. *)
StartRun ==
    LET empty == Existing = {}
    IN  /\ EventLoopFree
        /\ Running = {}
        /\ Len(runs) < MaxRuns
        /\ runs' = Append(runs, IF empty THEN "failed" ELSE "running")
        /\ loops' = Append(loops,
            [pc |-> IF empty THEN "done" ELSE "messages", stopped |-> FALSE, broke |-> FALSE,
             todo |-> {}, targets |-> {}, slots |-> 0, job |-> <<>>, ctx |-> 0])
        /\ active' = IF empty THEN 0 ELSE Len(runs) + 1
        /\ UNCHANGED <<vars, inbox, working>>

(* The caller is told the run is stopped; its row is left to the loop. *)
RunStop ==
    /\ EventLoopFree
    /\ Running # {}
    /\ loops' = [r \in RunIds |->
            IF r = active THEN [loops[r] EXCEPT !.stopped = TRUE] ELSE loops[r]]
    /\ active' = 0
    /\ UNCHANGED <<vars, runs, inbox, working>>

FinalStatus(r) ==
    IF loops[r].stopped \/ loops[r].broke \/ \E t \in Existing : tstatus[t] # "completed"
    THEN "failed" ELSE "completed"

(* Mutant: a loop that was stopped leaves its row as it is. *)
EndRunUnlessStopped(r) ==
    /\ loops' = [loops EXCEPT ![r] = Between(r, "done")]
    /\ runs' = [runs EXCEPT ![r] =
            IF @ = "deleted" \/ loops[r].stopped THEN @ ELSE FinalStatus(r)]
    /\ active' = IF active = r THEN 0 ELSE active

(* Mutant: a loop that ends clears activeCoordinator, whoever's it is. *)
EndRunClearsActive(r) ==
    /\ loops' = [loops EXCEPT ![r] = Between(r, "done")]
    /\ runs' = [runs EXCEPT ![r] = IF @ = "deleted" THEN @ ELSE FinalStatus(r)]
    /\ active' = 0

(* The loop returns and its row, if it is still there, takes its status. *)
EndRun(r) ==
    /\ loops' = [loops EXCEPT ![r] = Between(r, "done")]
    /\ runs' = [runs EXCEPT ![r] = IF @ = "deleted" THEN @ ELSE FinalStatus(r)]
    /\ active' = IF active = r THEN 0 ELSE active

-----------------------------------------------------------------------------
(* One tick: messages, gates, dispatching, convergence *)

(* Reconciliation accepts a worker_done for dispatch c from its own worker. *)
Accepts(c) ==
    LET t == ctxs[c].task
    IN  c \in RowsOf(t) /\ Active(c) /\ IsLast(c, RowsOf(t)) /\ tstatus[t] = "dispatched"

ReconcileWorkerDone(c) ==
    IF Accepts(c)
    THEN WorkerDone(ctxs[c].task, c, ctxs[c].handle, ctxs[c].pane)
    ELSE UNCHANGED vars

(* An escalation names a task, and fails whatever dispatch is its newest. *)
ActsOnEscalation(t) ==
    HasTask(t) /\ tstatus[t] \notin {"completed", "failed"} /\ RowsOf(t) # {}

Breaks(t) == \E c \in CtxIds : IsLast(c, RowsOf(t)) /\ ctxs'[c].status = "circuit_broken"

(* Messages are handled oldest first. *)
ProcessMessage(r) ==
    LET m == Head(inbox)
        acts == m.type = "escalation" /\ ActsOnEscalation(m.task)
    IN  /\ At(r, "messages")
        /\ inbox # <<>>
        /\ inbox' = Tail(inbox)
        /\ \/ m.type = "worker_done" /\ ReconcileWorkerDone(m.ctx)
           \/ m.type = "decision_gate" /\ CreateGate(m.task)
           \/ acts /\ HandleEscalation(m.task)
           \/ m.type = "escalation" /\ ~acts /\ UNCHANGED vars
        /\ loops' = [loops EXCEPT ![r].broke = @ \/ (acts /\ Breaks(m.task))]
        /\ UNCHANGED <<runs, active, working>>

Unblocked(g) ==
    /\ gates[g].status = "pending"
    /\ HasTask(gates[g].task)
    /\ tstatus[gates[g].task] # "blocked"

ProcessDecisionGate(r, g) ==
    /\ At(r, "messages") /\ inbox = <<>>
    /\ ReblockGatedTask(g)
    /\ UNCHANGED <<coordination, inbox, working>>

(* Mutant: one slot too many. *)
SnapshotOffByOne(r) ==
    LET ready == {t \in Tasks : tstatus[t] = "ready"}
        busy == Cardinality(DispatchedTasks)
    IN  /\ At(r, "messages") /\ inbox = <<>>
        /\ ~\E g \in DOMAIN gates : Unblocked(g)
        /\ ready # {} /\ busy <= MaxConcurrent
        /\ loops' = [loops EXCEPT ![r].todo = ready, ![r].slots = MaxConcurrent + 1 - busy,
                                  ![r].pc = "list"]
        /\ UNCHANGED <<vars, runs, active, inbox, working>>

(* The snapshot the rest of the tick works from: ready tasks and free slots. *)
TakeSnapshot(r) ==
    LET ready == {t \in Tasks : tstatus[t] = "ready"}
        busy == Cardinality(DispatchedTasks)
        room == IF busy < MaxConcurrent THEN MaxConcurrent - busy ELSE 0
    IN  /\ At(r, "messages") /\ inbox = <<>>
        /\ ~\E g \in DOMAIN gates : Unblocked(g)
        /\ loops' = IF ready = {} \/ room = 0
                    THEN [loops EXCEPT ![r].pc = "converge"]
                    ELSE [loops EXCEPT ![r].todo = ready, ![r].slots = room, ![r].pc = "list"]
        /\ UNCHANGED <<vars, runs, active, inbox, working>>

(* Handles in the newest row of a dispatched task. *)
BusyHandles ==
    {ctxs[c].handle : c \in {d \in CtxIds : \E t \in DispatchedTasks : IsLast(d, RowsOf(t))}}

LiveHandles == {h \in Handles : Live(h) /\ h[1] \in alive}

(* listTerminals answers, or fails and counts as an empty answer. *)
ListTerminals(r, targets) ==
    /\ At(r, "list")
    /\ loops' = [loops EXCEPT ![r].targets = targets,
                              ![r].pc = IF targets = {} THEN "create" ELSE "next"]
    /\ UNCHANGED <<vars, runs, active, inbox, working>>

(* A worker terminal is created, or not.  A dead pane that no dispatch in   *)
(* progress names is as good as a new one.                                  *)
CreateTerminal(r) ==
    /\ At(r, "create")
    /\ \E p \in Panes :
        /\ PaneRestart(p)
        /\ \A c \in CtxIds : Active(c) => ctxs[c].handle[1] # p
        /\ loops' = [loops EXCEPT ![r].targets = {<<p, gen'[p]>>}, ![r].pc = "next"]
    /\ UNCHANGED <<runs, active, inbox, working>>

CreateTerminalFails(r) ==
    /\ At(r, "create")
    /\ Goto(r, "converge")
    /\ UNCHANGED <<vars, runs, active, inbox, working>>

(* Mutant: the slot is given up only when the prompt was sent. *)
PickTaskKeepsSlot(r) ==
    /\ At(r, "next")
    /\ loops[r].slots > 0
    /\ \E t \in loops[r].todo, h \in loops[r].targets :
        loops' = [loops EXCEPT ![r].todo = @ \ {t}, ![r].targets = @ \ {h},
                               ![r].job = <<t, h>>, ![r].pc = "probe"]
    /\ UNCHANGED <<vars, runs, active, inbox, working>>

(* The next ready task and the next terminal, whose drift probe is awaited. *)
PickTask(r) ==
    /\ At(r, "next")
    /\ loops[r].slots > 0
    /\ \E t \in loops[r].todo, h \in loops[r].targets :
        loops' = [loops EXCEPT ![r].todo = @ \ {t}, ![r].targets = @ \ {h},
                               ![r].slots = @ - 1, ![r].job = <<t, h>>, ![r].pc = "probe"]
    /\ UNCHANGED <<vars, runs, active, inbox, working>>

NothingToPick(r) ==
    /\ At(r, "next")
    /\ loops[r].slots = 0 \/ loops[r].todo = {} \/ loops[r].targets = {}
    /\ Goto(r, "converge")
    /\ UNCHANGED <<vars, runs, active, inbox, working>>

(* dispatchTask is over, one way or another, and the tick goes on. *)
JobDone(r) == [loops EXCEPT ![r].job = <<>>, ![r].ctx = 0, ![r].pc = "next"]

(* The worktree has drifted too far: the task is skipped and stays ready. *)
SkipStaleBase(r) ==
    /\ At(r, "probe")
    /\ loops' = JobDone(r)
    /\ UNCHANGED <<vars, runs, active, inbox, working>>

(* The probe is done and the row is written; the prompt is awaited. *)
OpenDispatch(r) ==
    /\ At(r, "probe")
    /\ DispatchTask(loops[r].job[1], loops[r].job[2], TRUE)
    /\ loops' = [loops EXCEPT ![r].job = <<>>, ![r].ctx = Len(ctxs) + 1, ![r].pc = "send"]
    /\ UNCHANGED <<runs, active, inbox, working>>

(* createDispatchContext throws: the task or the terminal is taken by now. *)
DispatchRefused(r) ==
    LET t == loops[r].job[1]
        h == loops[r].job[2]
    IN  /\ At(r, "probe")
        /\ tstatus[t] # "ready" \/ \E c \in CtxIds : Occupies(c, h, TerminalPaneKey(h))
        /\ loops' = JobDone(r)
        /\ UNCHANGED <<vars, runs, active, inbox, working>>

LoopPromptSent(r) ==
    /\ At(r, "send")
    /\ PromptSent(loops[r].ctx)
    /\ working' = working \cup {loops[r].ctx}
    /\ loops' = JobDone(r)
    /\ UNCHANGED <<runs, active, inbox>>

LoopPromptFailed(r) ==
    LET c == loops[r].ctx
    IN  /\ At(r, "send")
        /\ PromptFailed(c)
        /\ loops' = [JobDone(r) EXCEPT ![r].broke = @ \/ ctxs'[c].status = "circuit_broken"]
        /\ UNCHANGED <<runs, active, inbox, working>>

(* checkConvergence, which an empty task table satisfies. *)
CheckConvergence(r) ==
    /\ At(r, "converge")
    /\ \/ Settled /\ EndRun(r)
       \/ /\ ~Settled
          /\ loops' = [loops EXCEPT ![r] = Between(r, "sleep")]
          /\ UNCHANGED <<runs, active>>
    /\ UNCHANGED <<vars, inbox, working>>

(* Mutant: the loop looks at its stop flag only when it converges. *)
WakeAlways(r) ==
    /\ At(r, "sleep")
    /\ Goto(r, "messages")
    /\ UNCHANGED <<vars, runs, active, inbox, working>>

(* The poll timer fires, and a stopped loop leaves instead of ticking. *)
Wake(r) ==
    /\ At(r, "sleep")
    /\ \/ loops[r].stopped /\ EndRun(r)
       \/ ~loops[r].stopped /\ Goto(r, "messages") /\ UNCHANGED <<runs, active>>
    /\ UNCHANGED <<vars, inbox, working>>

LoopStep(r) ==
    \/ ProcessMessage(r)
    \/ \E g \in DOMAIN gates : ProcessDecisionGate(r, g)
    \/ TakeSnapshot(r)
    \/ \E targets \in {LiveHandles \ BusyHandles, {}} : ListTerminals(r, targets)
    \/ CreateTerminal(r) \/ CreateTerminalFails(r)
    \/ PickTask(r) \/ NothingToPick(r)
    \/ SkipStaleBase(r) \/ OpenDispatch(r) \/ DispatchRefused(r)
    \/ LoopPromptSent(r) \/ LoopPromptFailed(r)
    \/ CheckConvergence(r) \/ Wake(r)

-----------------------------------------------------------------------------
(* Workers *)

Post(type, t, c) == inbox' = Append(inbox, [type |-> type, task |-> t, ctx |-> c])

(* A worker sends worker_done for its dispatch, once.  The send reconciles  *)
(* it before anybody is woken; the message stays for the coordinator.       *)
WorkerReports(c) ==
    /\ EventLoopFree
    /\ c \in working
    /\ working' = working \ {c}
    /\ Post("worker_done", ctxs[c].task, c)
    /\ ReconcileWorkerDone(c)
    /\ UNCHANGED coordination

(* A worker asks the coordinator to intervene, or to open a decision gate. *)
WorkerEscalates(c) ==
    /\ EventLoopFree
    /\ c \in working /\ Len(inbox) < MaxInbox
    /\ Post("escalation", ctxs[c].task, c)
    /\ UNCHANGED <<vars, coordination, working>>

WorkerAsksForGate(c) ==
    /\ EventLoopFree
    /\ c \in working /\ Len(inbox) < MaxInbox
    /\ Len(SelectSeq(inbox, LAMBDA m : m.type = "decision_gate")) + Len(gates) < MaxGates
    /\ Post("decision_gate", ctxs[c].task, c)
    /\ UNCHANGED <<vars, coordination, working>>

(* The process in pane p exits: its dispatch is failed at once, and while a *)
(* run is recorded as running the coordinator is sent an escalation too.    *)
(* Exits are bounded so that another terminal can always be created.        *)
WorkerExits(p) ==
    LET mine == {c \in CtxIds : Occupies(c, <<p, gen[p]>>, NoPane)}
    IN  /\ EventLoopFree
        /\ gen[p] < MaxRemints
        /\ AgentExit(p)
        /\ working' = {c \in working : ctxs[c].handle[1] # p}
        /\ IF mine # {} /\ Running # {}
           THEN \E c \in mine : Post("escalation", ctxs[c].task, 0)
           ELSE UNCHANGED inbox
        /\ UNCHANGED coordination

(* A person answers a pending gate. *)
AnswerGate(g) ==
    /\ EventLoopFree
    /\ gates[g].status = "pending"
    /\ ResolveGate(g)
    /\ UNCHANGED <<coordination, inbox, working>>

(* Tasks may be added before and during a run. *)
AddTask(t, ds) ==
    /\ EventLoopFree
    /\ CreateTask(t, ds)
    /\ UNCHANGED <<coordination, inbox, working>>

-----------------------------------------------------------------------------
(* Other callers *)

(* orchestration.dispatch from a terminal that coordinates by hand. *)
RpcDispatch(t, h, inject) ==
    /\ EventLoopFree
    /\ DispatchTask(t, h, inject)
    /\ UNCHANGED <<coordination, inbox, working>>

(* The injection awaited by orchestration.dispatch settles. *)
RpcPromptSettles(c) ==
    /\ EventLoopFree
    /\ ~\E r \in RunIds : loops[r].pc = "send" /\ loops[r].ctx = c
    /\ \/ PromptSent(c) /\ working' = working \cup {c}
       \/ PromptFailed(c) /\ UNCHANGED working
    /\ UNCHANGED <<coordination, inbox>>

(* orchestration.taskUpdate and orchestration.gateCreate. *)
RpcTaskUpdate(t, s) ==
    /\ EventLoopFree
    /\ TaskUpdate(t, s)
    /\ UNCHANGED <<coordination, inbox, working>>

RpcGateCreate(t) ==
    /\ EventLoopFree
    /\ CreateGate(t)
    /\ UNCHANGED <<coordination, inbox, working>>

(* The renderer reloads: the worker in the pane goes on under a new handle. *)
Reload(p) ==
    /\ EventLoopFree
    /\ RemintHandle(p)
    /\ UNCHANGED <<coordination, inbox, working>>

(* orchestration.reset --tasks: the run rows go too, the loops do not.  With *)
(* --all the messages go as well.                                           *)
RpcReset(all) ==
    /\ EventLoopFree
    /\ ResetTasks
    /\ runs' = [r \in RunIds |-> "deleted"]
    /\ inbox' = IF all THEN <<>> ELSE inbox
    /\ UNCHANGED <<loops, active, working>>

(* The application comes back: rows, messages and surviving workers are     *)
(* there, the loops and activeCoordinator are not.                          *)
Restart(survivors) ==
    /\ EventLoopFree
    /\ AppRestart(survivors)
    /\ loops' = [r \in RunIds |->
            IF loops[r].pc = "done" THEN loops[r] ELSE Between(r, "dead")]
    /\ active' = 0
    /\ working' = {c \in working : ctxs[c].handle[1] \in survivors}
    /\ UNCHANGED <<runs, inbox>>

-----------------------------------------------------------------------------
(* One coordinator and its workers. *)
CNext ==
    \/ StartRun \/ RunStop
    \/ \E r \in RunIds : LoopStep(r)
    \/ \E c \in working : WorkerReports(c) \/ WorkerEscalates(c) \/ WorkerAsksForGate(c)
    \/ \E p \in Panes : WorkerExits(p)
    \/ \E g \in DOMAIN gates : AnswerGate(g)
    \/ \E t \in Tasks, ds \in SUBSET Tasks : AddTask(t, ds)

CSpec == CInit /\ [][CNext]_cvars

(* The same with the callers who work on the tables beside it. *)
OpenNext ==
    \/ CNext
    \/ \E t \in Tasks, h \in Handles, inject \in BOOLEAN : RpcDispatch(t, h, inject)
    \/ \E c \in sending : RpcPromptSettles(c)
    \/ \E t \in Tasks, s \in OperatorStatuses : RpcTaskUpdate(t, s)
    \/ \E t \in Tasks : RpcGateCreate(t)
    \/ \E p \in Panes : Reload(p)
    \/ \E all \in BOOLEAN : RpcReset(all)
    \/ \E survivors \in SUBSET alive : Restart(survivors)

OpenSpec == CInit /\ [][OpenNext]_cvars

-----------------------------------------------------------------------------
(* What is assumed of the world for a run to get anywhere: the process       *)
(* serves its loops; listing terminals, creating one and catching up with    *)
(* the base do not fail for ever; and workers that were prompted report,     *)
(* unless they exit.                                                         *)
Fairness ==
    /\ \A r \in 1 .. MaxRuns :
        /\ WF_cvars(r \in RunIds /\ LoopStep(r))
        /\ SF_cvars(r \in RunIds /\ ListTerminals(r, LiveHandles \ BusyHandles))
        /\ SF_cvars(r \in RunIds /\ CreateTerminal(r))
        /\ SF_cvars(r \in RunIds /\ OpenDispatch(r))
    /\ SF_cvars(\E c \in working : WorkerReports(c))

FairSpec == CSpec /\ Fairness

-----------------------------------------------------------------------------
(* Properties *)

CTypeOK ==
    /\ runs \in Seq({"running", "completed", "failed", "deleted"})
    /\ loops \in Seq(Loop) /\ Len(loops) = Len(runs)
    /\ active \in {0} \cup RunIds
    /\ inbox \in Seq(Message)
    /\ working \subseteq CtxIds

(* coordinator.test.ts, `respects maxConcurrent limit': a coordinator that   *)
(* is alone keeps at most MaxConcurrent tasks dispatched, although it counts *)
(* its free slots before several awaits and uses them after.                 *)
ConcurrencyLimit == Cardinality(DispatchedTasks) <= MaxConcurrent

GatesOf(t) == {g \in DOMAIN gates : gates[g].task = t}

(* As long as a task was gated at most once, whoever works on it works on    *)
(* its newest dispatch and the task waits for that dispatch: a completion    *)
(* report, a retry, an escalation and a gate never leave a worker whose      *)
(* report nobody would accept.                                               *)
WorkerIsAwaited ==
    \A c \in CtxIds :
        LET t == ctxs[c].task
        IN  Active(c) /\ Cardinality(GatesOf(t)) <= 1 =>
                tstatus[t] = "dispatched" /\ IsLast(c, RowsOf(t))

(* A completed task that no gate names stays completed until a gate does: a  *)
(* prompt that fails late, a worker that exits after its report, an          *)
(* escalation that crossed the report and a retry that was under way do not  *)
(* give it back to be done again, although failDispatch makes the task of    *)
(* any row ready, whatever the status of either.                             *)
CompletionIsFinal ==
    [][\A t \in Tasks :
        tstatus[t] = "completed" /\ GatesOf(t) = {} =>
            tstatus'[t] = "completed" \/ GatesOf(t)' # {}]_cvars

(* The row of a run and its loop agree: a run recorded as running has a loop *)
(* that will end it, and a loop that lives has its row.                      *)
RunningRowHasLoop ==
    \A r \in RunIds : runs[r] = "running" <=> loops[r].pc \notin {"done", "dead"}

(* orchestration-gates.ts: "only one coordinator can run at a time (enforced *)
(* by the DB's active-run check), so a single reference suffices".  It does  *)
(* for the loops whose row a reset did not delete: there is at most one, and *)
(* runStop reaches it or has told it to stop, although activeCoordinator may *)
(* have been overwritten while an earlier loop, whose row is gone, goes on   *)
(* and will clear the reference when it ends.                                *)
RunStopReachesRun ==
    LET onRecord == {r \in RunIds : loops[r].pc \notin {"done", "dead"} /\ runs[r] # "deleted"}
    IN  \A r \in onRecord : onRecord = {r} /\ (active = r \/ loops[r].stopped)

(* A run that was told to stop ends, wherever its loop was at the time.      *)
StoppedRunEnds ==
    \A r \in 1 .. MaxRuns :
        (r \in RunIds /\ loops[r].stopped) ~> (r \in RunIds /\ runs[r] # "running")

(* Something only a person can resolve: a gate, or a task that waits for a   *)
(* dependency that failed or that was completed before the task was created. *)
Hindered ==
    \/ \E g \in DOMAIN gates : gates[g].status = "pending"
    \/ \E t \in Existing :
        /\ tstatus[t] = "pending" /\ deps[t] # {}
        /\ \/ \E d \in deps[t] : tstatus[d] = "failed"
           \/ \A d \in deps[t] : tstatus[d] = "completed"

(* A run ends unless it waits for a person for ever: no combination of late  *)
(* prompts, exits, escalations and lost slots leaves a task that is ready or *)
(* dispatched and that nobody will finish.                                   *)
RunEnds ==
    \A r \in 1 .. MaxRuns :
        <>[](r \in RunIds /\ runs[r] = "running") => <>[]Hindered

(* Nothing in flight brings back what a reset deleted: not a loop that was   *)
(* awaiting, a prompt that settles late, a message that outlived the tables  *)
(* or a worker that reports.                                                 *)
ResetIsFinal ==
    [][/\ \A t \in Tasks : tstatus[t] = "deleted" => tstatus'[t] = "deleted"
       /\ \A c \in CtxIds : ctxs[c].status = "deleted" => ctxs'[c].status = "deleted"]_cvars

(* orchestration-gates.ts: "Only one coordinator can run at a time (enforced *)
(* by the DB's active-run check), so a single reference suffices."           *)
OnlyOneLoop == Cardinality({r \in RunIds : loops[r].pc \notin {"done", "dead"}}) <= 1
=============================================================================
