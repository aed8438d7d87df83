------------------------------ MODULE Dispatch ------------------------------
(***************************************************************************)
(* The task table, the dispatch table and the gate table of the            *)
(* orchestration database (src/src/main/runtime/orchestration/db.ts), and  *)
(* every operation that writes them: the orchestration.* RPC handlers, the *)
(* lifecycle reconciliation of worker_done, the coordinator's handling of  *)
(* an escalation and of a pending gate, and the runtime's agent-exit hook. *)
(*                                                                         *)
(* Each operation is one synchronous block of the main process and so one  *)
(* action.  What is not synchronous is the injection of a prompt into the  *)
(* worker's terminal, which a dispatch awaits: `sending' holds the         *)
(* dispatches whose injection has not settled, and anything may happen     *)
(* before it does.                                                         *)
(*                                                                         *)
(* A terminal handle is a pair <<pane, generation>>: a renderer reload, or *)
(* a new process in the pane, invalidates the pane's handle and the next   *)
(* one issued is new, while the pane's leaf id stays.                      *)
(***************************************************************************)
EXTENDS Naturals, Sequences, FiniteSets

CONSTANTS
    Tasks,              \* task ids that may be created
    Panes,              \* terminal panes (leaf ids)
    NoPane,             \* a pane key the runtime cannot resolve
    OperatorStatuses,   \* statuses that orchestration.taskUpdate is called with
    MaxRemints,         \* bound: handles issued to a pane after its first
    MaxDispatches,      \* bound: rows of the dispatch table
    MaxGates            \* bound: rows of the gate table

TaskStatus == {"pending", "ready", "dispatched", "completed", "failed", "blocked"}

ASSUME NoPaneAssumption == NoPane \notin Panes
ASSUME StatusAssumption == OperatorStatuses \subseteq TaskStatus
ASSUME BoundsAssumption ==
    MaxRemints \in Nat /\ MaxDispatches \in Nat /\ MaxGates \in Nat

VARIABLES
    tstatus,    \* status of a task, "none" before its row exists, "deleted" after a reset
    deps,       \* the tasks a task was created to wait for
    ctxs,       \* dispatch rows in rowid order
    gates,      \* decision gates in creation order
    sending,    \* dispatches whose prompt injection is awaited
    gen,        \* generation of the handle a pane answers to now
    alive       \* panes whose process runs

tables == <<tstatus, deps, ctxs, gates>>
runtime == <<gen, alive>>
vars == <<tstatus, deps, ctxs, gates, sending, gen, alive>>

-----------------------------------------------------------------------------
(* Terminals *)

Handles == Panes \X (0 .. MaxRemints)

Live(h) == gen[h[1]] = h[2]

IsIssued(h) == h[2] <= gen[h[1]]

(* The pane the runtime resolves a handle to; a stale handle has none. *)
TerminalPaneKey(h) == IF Live(h) THEN h[1] ELSE NoPane

-----------------------------------------------------------------------------
(* The dispatch table *)

CtxStatus == {"dispatched", "completed", "failed", "circuit_broken", "deleted"}

(* A dispatch is broken at the third failure; a row keeps counting after,    *)
(* but no code tells counts beyond the limit apart, and here they are one.   *)
FailureLimit == 3

DispatchRow ==
    [task : Tasks, handle : Handles, pane : Panes \cup {NoPane},
     status : CtxStatus, failures : 0 .. FailureLimit]

GateRow == [task : Tasks, status : {"pending", "resolved", "deleted"}]

CtxIds == DOMAIN ctxs

Active(c) == ctxs[c].status = "dispatched"

RowsOf(t) == {c \in CtxIds : ctxs[c].task = t /\ ctxs[c].status # "deleted"}

(* The row that a query ordered by descending rowid returns first. *)
IsLast(c, rows) == c \in rows /\ \A d \in rows : d <= c

ActiveFor(t) == {c \in RowsOf(t) : Active(c)}

(* The dispatch lock: a row holds the worker when the handle is the same or *)
(* the pane is.                                                             *)
Occupies(c, h, p) ==
    /\ Active(c)
    /\ \/ ctxs[c].handle = h
       \/ p # NoPane /\ ctxs[c].pane = p

HasTask(t) == tstatus[t] \in TaskStatus

WithStatus(t, s) == IF HasTask(t) THEN [tstatus EXCEPT ![t] = s] ELSE tstatus

-----------------------------------------------------------------------------
(* Operations of the database, from which the handlers below are made *)

(* Mutant: the children are looked up before the task is marked completed. *)
PromoteTooEarly(st, t) ==
    [u \in Tasks |->
        IF st[u] = "pending" /\ t \in deps[u] /\ \A d \in deps[u] : tstatus[d] = "completed"
        THEN "ready" ELSE st[u]]

(* Completing a task releases the children it was the last to hold back. *)
PromoteReadyTasks(st, t) ==
    [u \in Tasks |->
        IF /\ st[u] = "pending"
           /\ t \in deps[u]
           /\ \A d \in deps[u] : st[d] = "completed"
        THEN "ready" ELSE st[u]]

(* Mutant: the query forgets to order by descending rowid. *)
CompleteOldestDispatch(t) ==
    [c \in CtxIds |->
        IF c \in ActiveFor(t) /\ \A d \in ActiveFor(t) : c <= d
        THEN [ctxs[c] EXCEPT !.status = "completed"] ELSE ctxs[c]]

(* Only the newest active dispatch of the task is completed. *)
CompleteActiveDispatchForTask(t) ==
    [c \in CtxIds |->
        IF IsLast(c, ActiveFor(t)) THEN [ctxs[c] EXCEPT !.status = "completed"] ELSE ctxs[c]]

(* Mutant: completing a task leaves its dispatch in progress. *)
UpdateTaskStatusOnly(t, s) ==
    /\ tstatus' = IF s = "completed" THEN PromoteReadyTasks([tstatus EXCEPT ![t] = s], t)
                  ELSE [tstatus EXCEPT ![t] = s]
    /\ UNCHANGED ctxs

UpdateTaskStatus(t, s) ==
    IF s = "completed"
    THEN /\ tstatus' = PromoteReadyTasks([tstatus EXCEPT ![t] = s], t)
         /\ ctxs' = CompleteActiveDispatchForTask(t)
    ELSE /\ tstatus' = [tstatus EXCEPT ![t] = s]
         /\ UNCHANGED ctxs

(* The failure count a new dispatch of the task starts from. *)
IsCarried(n, t) ==
    \/ RowsOf(t) = {} /\ n = 0
    \/ /\ \E c \in RowsOf(t) : ctxs[c].failures = n
       /\ \A c \in RowsOf(t) : ctxs[c].failures <= n

(* Mutant: the lock compares handles only. *)
CreateDispatchByHandle(t, h) ==
    /\ tstatus[t] = "ready"
    /\ Len(ctxs) < MaxDispatches
    /\ \A c \in CtxIds : ~(Active(c) /\ ctxs[c].handle = h)
    /\ ctxs' = Append(ctxs, [task |-> t, handle |-> h, pane |-> TerminalPaneKey(h),
                             status |-> "dispatched", failures |-> 0])
    /\ tstatus' = [tstatus EXCEPT ![t] = "dispatched"]

CreateDispatchContext(t, h) ==
    /\ tstatus[t] = "ready"
    /\ Len(ctxs) < MaxDispatches
    /\ \A c \in CtxIds : ~Occupies(c, h, TerminalPaneKey(h))
    /\ \E n \in 0 .. FailureLimit :
        /\ IsCarried(n, t)
        /\ ctxs' = Append(ctxs, [task |-> t, handle |-> h, pane |-> TerminalPaneKey(h),
                                 status |-> "dispatched", failures |-> n])
    /\ tstatus' = [tstatus EXCEPT ![t] = "dispatched"]

(* Mutant: below the limit the task is not given back. *)
FailDispatchKeepsTask(c) ==
    LET n == IF ctxs[c].failures < FailureLimit THEN ctxs[c].failures + 1 ELSE FailureLimit
    IN  /\ ctxs' = [ctxs EXCEPT ![c].status = "failed", ![c].failures = n]
        /\ tstatus' = IF n = FailureLimit THEN WithStatus(ctxs[c].task, "failed") ELSE tstatus

(* Mutant: the task is given back as one that waits for its dependencies. *)
FailDispatchWaits(c) ==
    LET n == IF ctxs[c].failures < FailureLimit THEN ctxs[c].failures + 1 ELSE FailureLimit
        broken == n = FailureLimit
    IN  /\ ctxs' = [ctxs EXCEPT ![c].status = IF broken THEN "circuit_broken" ELSE "failed",
                                ![c].failures = n]
        /\ tstatus' = WithStatus(ctxs[c].task, IF broken THEN "failed" ELSE "pending")

(* The row is failed whatever its status is, and the task follows. *)
FailDispatch(c) ==
    LET n == IF ctxs[c].failures < FailureLimit THEN ctxs[c].failures + 1 ELSE FailureLimit
        broken == n = FailureLimit
    IN  /\ ctxs' = [ctxs EXCEPT ![c].status = IF broken THEN "circuit_broken" ELSE "failed",
                                ![c].failures = n]
        /\ tstatus' = WithStatus(ctxs[c].task, IF broken THEN "failed" ELSE "ready")

-----------------------------------------------------------------------------
(* RPC handlers *)

Init ==
    /\ tstatus = [t \in Tasks |-> "none"]
    /\ deps = [t \in Tasks |-> {}]
    /\ ctxs = <<>>
    /\ gates = <<>>
    /\ sending = {}
    /\ gen = [p \in Panes |-> 0]
    /\ alive = Panes

(* orchestration.taskCreate: dependencies name tasks created before.  Their *)
(* status is not looked at.                                                 *)
CreateTask(t, ds) ==
    /\ tstatus[t] = "none"
    /\ ds \subseteq {u \in Tasks : tstatus[u] # "none"}
    /\ tstatus' = [tstatus EXCEPT ![t] = IF ds = {} THEN "ready" ELSE "pending"]
    /\ deps' = [deps EXCEPT ![t] = ds]
    /\ UNCHANGED <<ctxs, gates, sending, runtime>>

(* orchestration.taskUpdate: any status over any other. *)
TaskUpdate(t, s) ==
    /\ HasTask(t)
    /\ UpdateTaskStatus(t, s)
    /\ UNCHANGED <<deps, gates, sending, runtime>>

(* orchestration.dispatch, with or without injecting the prompt.  The agent *)
(* was probed before an await, so the terminal may be gone by now.          *)
DispatchTask(t, h, inject) ==
    /\ IsIssued(h)
    /\ CreateDispatchContext(t, h)
    /\ sending' = IF inject THEN sending \cup {Len(ctxs) + 1} ELSE sending
    /\ UNCHANGED <<deps, gates, runtime>>

(* The awaited injection settles, long after the row was written.  It can    *)
(* only succeed when the handle resolved and the pane can still be written.  *)
PromptSent(c) ==
    /\ c \in sending
    /\ ctxs[c].pane \in alive
    /\ sending' = sending \ {c}
    /\ UNCHANGED <<tables, runtime>>

(* Mutant: the rejection writes its row back after a reset removed it. *)
PromptFailedAlways(c) ==
    /\ c \in sending
    /\ sending' = sending \ {c}
    /\ FailDispatch(c)
    /\ UNCHANGED <<deps, gates, runtime>>

PromptFailed(c) ==
    /\ c \in sending
    /\ sending' = sending \ {c}
    /\ IF ctxs[c].status = "deleted" THEN UNCHANGED <<ctxs, tstatus>> ELSE FailDispatch(c)
    /\ UNCHANGED <<deps, gates, runtime>>

(* Mutant: the worker that asked keeps its dispatch. *)
CreateGateKeepsDispatch(t) ==
    /\ tstatus[t] # "none"
    /\ Len(gates) < MaxGates
    /\ gates' = Append(gates, [task |-> t, status |-> "pending"])
    /\ tstatus' = WithStatus(t, "blocked")
    /\ UNCHANGED <<deps, ctxs, sending, runtime>>

(* orchestration.gateCreate, and the coordinator on a decision_gate message. *)
CreateGate(t) ==
    /\ tstatus[t] # "none"
    /\ Len(gates) < MaxGates
    /\ gates' = Append(gates, [task |-> t, status |-> "pending"])
    /\ ctxs' = CompleteActiveDispatchForTask(t)
    /\ tstatus' = WithStatus(t, "blocked")
    /\ UNCHANGED <<deps, sending, runtime>>

(* Mutant: the worker that asked gets its dispatch back. *)
ResolveGateResumes(g) ==
    /\ gates[g].status # "deleted"
    /\ gates' = [gates EXCEPT ![g].status = "resolved"]
    /\ tstatus' = WithStatus(gates[g].task, "dispatched")
    /\ ctxs' = [c \in CtxIds |->
            IF IsLast(c, RowsOf(gates[g].task))
            THEN [ctxs[c] EXCEPT !.status = "dispatched"] ELSE ctxs[c]]
    /\ UNCHANGED <<deps, sending, runtime>>

(* orchestration.gateResolve: neither the gate nor the task is checked. *)
ResolveGate(g) ==
    /\ gates[g].status # "deleted"
    /\ gates' = [gates EXCEPT ![g].status = "resolved"]
    /\ tstatus' = WithStatus(gates[g].task, "ready")
    /\ UNCHANGED <<deps, ctxs, sending, runtime>>

(* Mutant: dispatch ids are handed out again after a reset. *)
ResetReusesIds ==
    /\ tstatus' = [t \in Tasks |-> IF HasTask(t) THEN "deleted" ELSE tstatus[t]]
    /\ ctxs' = <<>>
    /\ gates' = [g \in DOMAIN gates |-> [gates[g] EXCEPT !.status = "deleted"]]
    /\ UNCHANGED <<deps, sending, runtime>>

(* Mutant: the dispatch rows go and the tasks stay. *)
ResetKeepsTasks ==
    /\ ctxs' = [c \in CtxIds |-> [ctxs[c] EXCEPT !.status = "deleted"]]
    /\ gates' = [g \in DOMAIN gates |-> [gates[g] EXCEPT !.status = "deleted"]]
    /\ UNCHANGED <<tstatus, deps, sending, runtime>>

(* orchestration.reset --tasks, or --all: the rows go, the awaits stay. *)
ResetTasks ==
    /\ tstatus' = [t \in Tasks |-> IF HasTask(t) THEN "deleted" ELSE tstatus[t]]
    /\ ctxs' = [c \in CtxIds |-> [ctxs[c] EXCEPT !.status = "deleted"]]
    /\ gates' = [g \in DOMAIN gates |-> [gates[g] EXCEPT !.status = "deleted"]]
    /\ UNCHANGED <<deps, sending, runtime>>

-----------------------------------------------------------------------------
(* Messages and the coordinator *)

(* Who may complete a dispatch: its pane, or its handle when it has none. *)
HasLifecycleAuthority(c, h, p) ==
    IF ctxs[c].pane # NoPane THEN p = ctxs[c].pane ELSE h = ctxs[c].handle

(* A worker_done for dispatch c of task t, from handle h in pane p, that    *)
(* reconciliation accepts.                                                  *)
WorkerDone(t, c, h, p) ==
    /\ c \in RowsOf(t)
    /\ HasLifecycleAuthority(c, h, p)
    /\ Active(c)
    /\ IsLast(c, RowsOf(t))
    /\ tstatus[t] = "dispatched"
    /\ UpdateTaskStatus(t, "completed")
    /\ UNCHANGED <<deps, gates, sending, runtime>>

(* The coordinator handles an escalation naming task t. *)
HandleEscalation(t) ==
    /\ HasTask(t) /\ tstatus[t] \notin {"completed", "failed"}
    /\ \E c \in CtxIds : IsLast(c, RowsOf(t)) /\ FailDispatch(c)
    /\ UNCHANGED <<deps, gates, sending, runtime>>

(* The coordinator finds gate g pending and its task not blocked. *)
ReblockGatedTask(g) ==
    /\ gates[g].status = "pending"
    /\ HasTask(gates[g].task) /\ tstatus[gates[g].task] # "blocked"
    /\ UpdateTaskStatus(gates[g].task, "blocked")
    /\ UNCHANGED <<deps, gates, sending, runtime>>

-----------------------------------------------------------------------------
(* The runtime *)

(* The process of pane p exits: the dispatch held by the handle the pane    *)
(* answers to now, if there is one, is failed.                              *)
AgentExit(p) ==
    LET mine == {c \in CtxIds : Occupies(c, <<p, gen[p]>>, NoPane)}
    IN  /\ p \in alive
        /\ alive' = alive \ {p}
        /\ \/ mine = {} /\ UNCHANGED <<ctxs, tstatus>>
           \/ \E c \in mine : FailDispatch(c)
        /\ UNCHANGED <<deps, gates, sending, gen>>

(* A new process in the pane answers to a new handle. *)
PaneRestart(p) ==
    /\ p \notin alive
    /\ gen[p] < MaxRemints
    /\ alive' = alive \cup {p}
    /\ gen' = [gen EXCEPT ![p] = @ + 1]
    /\ UNCHANGED <<tables, sending>>

(* A renderer reload: the pane's handle goes stale and a new one is issued. *)
RemintHandle(p) ==
    /\ gen[p] < MaxRemints
    /\ gen' = [gen EXCEPT ![p] = @ + 1]
    /\ UNCHANGED <<tables, sending, alive>>

(* The application quits and comes back on the same database file: no await *)
(* survives, and the processes that died meanwhile reported no exit.        *)
AppRestart(survivors) ==
    /\ sending' = {}
    /\ alive' = survivors
    /\ UNCHANGED <<tables, gen>>

-----------------------------------------------------------------------------

Next ==
    \/ \E t \in Tasks, ds \in SUBSET Tasks : CreateTask(t, ds)
    \/ \E t \in Tasks, s \in OperatorStatuses : TaskUpdate(t, s)
    \/ \E t \in Tasks, h \in Handles, inject \in BOOLEAN : DispatchTask(t, h, inject)
    \/ \E c \in sending : PromptSent(c) \/ PromptFailed(c)
    \/ \E t \in Tasks : CreateGate(t) \/ HandleEscalation(t)
    \/ \E g \in DOMAIN gates : ResolveGate(g) \/ ReblockGatedTask(g)
    \/ ResetTasks
    \/ \E t \in Tasks, c \in CtxIds, h \in Handles, p \in Panes \cup {NoPane} :
            WorkerDone(t, c, h, p)
    \/ \E p \in Panes : AgentExit(p) \/ PaneRestart(p) \/ RemintHandle(p)
    \/ \E survivors \in SUBSET alive : AppRestart(survivors)

Spec == Init /\ [][Next]_vars

-----------------------------------------------------------------------------
(* Properties *)

TypeOK ==
    /\ tstatus \in [Tasks -> TaskStatus \cup {"none", "deleted"}]
    /\ deps \in [Tasks -> SUBSET Tasks]
    /\ ctxs \in Seq(DispatchRow)
    /\ gates \in Seq(GateRow)
    /\ sending \subseteq CtxIds
    /\ gen \in [Panes -> 0 .. MaxRemints]
    /\ alive \subseteq Panes

(* createDispatchContext's lock: no two dispatches in progress name the same *)
(* handle or the same pane, through remints, retries, gates, restarts and    *)
(* late injection failures.                                                  *)
DispatchLock ==
    \A c, d \in CtxIds :
        c # d /\ Active(c) =>
            ~Occupies(d, ctxs[c].handle, ctxs[c].pane)

(* A task shown as dispatched has a worker: its newest dispatch row is in    *)
(* progress.  Reconciliation compares a worker_done with exactly that row,   *)
(* so without it nobody could complete the task.  (An operator who writes    *)
(* `dispatched' by hand with taskUpdate is excluded by OperatorStatuses.)    *)
DispatchedTaskHasWorker ==
    \A t \in Tasks : tstatus[t] = "dispatched" =>
        \E c \in CtxIds : IsLast(c, RowsOf(t)) /\ Active(c)

(* A worker whose completion is accepted is free at once: the row that is    *)
(* completed is the row it reported on, not another one of the same task.    *)
AcceptedReportFreesWorker ==
    [][\A t \in Tasks, c \in CtxIds, h \in Handles, p \in Panes \cup {NoPane} :
            WorkerDone(t, c, h, p) => ctxs'[c].status = "completed"]_vars

(* promoteReadyTasks misses nobody: whatever the order in which dependencies *)
(* are completed, by workers or by hand, a task that waits is released in    *)
(* the step that completes the last of them.                                 *)
LastDependencyReleases ==
    [][\A t \in Tasks :
        /\ tstatus[t] = "pending"
        /\ \E d \in deps[t] : tstatus[d] # "completed"
        /\ \A d \in deps[t] : tstatus'[d] = "completed"
        => tstatus'[t] # "pending"]_vars

(* Dispatches in progress, seen as leases of worker terminals. *)
HeldLeases ==
    [c \in {d \in CtxIds : Active(d)} |->
        [handle |-> ctxs[c].handle, pane |-> ctxs[c].pane]]

Lease == INSTANCE TerminalLease WITH
    Leases <- 1 .. MaxDispatches, held <- HeldLeases, spent <- CtxIds

(* The dispatch table implements the lease: a finished, failed or deleted    *)
(* dispatch never comes back to hold its terminal.                           *)
LeaseSpec == Lease!Spec

(* skill-guides/orchestration.md: "After 3 consecutive failures on one task, *)
(* the dispatch context circuit-breaks and the task is marked failed."  Read *)
(* as: a broken task has had three dispatches fail.                          *)
BreakerNeedsThreeFailedDispatches ==
    \A c \in CtxIds : ctxs[c].status = "circuit_broken" =>
        Cardinality({d \in RowsOf(ctxs[c].task) :
                        ctxs[d].status \in {"failed", "circuit_broken"}}) >= FailureLimit

(* orca-runtime.ts: "the runtime detects agent exit directly and updates     *)
(* dispatch contexts immediately".  Read as: when the process of a pane      *)
(* exits, no dispatch recorded on that pane stays in progress.               *)
ExitReleasesPane ==
    [][\A p \in Panes : p \in alive /\ AgentExit(p) =>
            \A c \in CtxIds : ctxs'[c].pane = p => ctxs'[c].status # "dispatched"]_vars

(* db.ts: "a completed task never leaves its ready children unpromoted".     *)
(* Read as: a task that waits has a dependency that is not completed.        *)
NoStrandedChild ==
    \A t \in Tasks : tstatus[t] = "pending" =>
        \E d \in deps[t] : tstatus[d] # "completed"
=============================================================================
