-------------------------- MODULE CompletionProofs --------------------------
(***************************************************************************)
(* Theorem of CSpec: a completed task that no gate names stays completed   *)
(* until a gate does (CompletionIsFinal).                                  *)
(*                                                                         *)
(* failDispatch gives the task of any row back, so the argument is about   *)
(* which rows may still fail once a task is completed.  A worker exits in  *)
(* a row in progress, and such a task is dispatched (Awaited).  An         *)
(* escalation is checked against the task.  A prompt fails in the row that *)
(* its loop is waiting for, and that task is not completed, because only   *)
(* its newest row completes it and a row whose prompt is awaited has       *)
(* neither a worker nor a report (Unbegun).                                *)
(***************************************************************************)
EXTENDS LoneCoordinatorProofs

(* Dispatches whose report is in the mailbox. *)
Reported == {inbox[k].ctx : k \in {j \in DOMAIN inbox : inbox[j].type = "worker_done"}}

(* Dispatches that somebody has worked on. *)
Begun == working \cup Reported

Unbegun ==
    \A r \in RunIds : loops[r].pc = "send" =>
        /\ loops[r].ctx \notin Begun
        /\ tstatus[ctxs[loops[r].ctx].task] # "completed"

UInv == AInv /\ Begun \subseteq CtxIds /\ Unbegun

(* What CompletionIsFinal says of a step. *)
StaysCompleted ==
    \A t \in Tasks :
        tstatus[t] = "completed" /\ GatesOf(t) = {} =>
            tstatus'[t] = "completed" \/ GatesOf(t)' # {}

(* Only a row that somebody has worked on completes its task. *)
CompletedByBegun ==
    \A t \in Tasks :
        tstatus'[t] = "completed" /\ tstatus[t] # "completed" =>
            \E c \in Begun : IsLast(c, RowsOf(t))

NobodyCompleted == \A t \in Tasks : tstatus'[t] = "completed" => tstatus[t] = "completed"

-----------------------------------------------------------------------------
(* The operations of the tables *)

LEMMA SameStatuses ==
    ASSUME UNCHANGED <<tstatus, gates>>
    PROVE  StaysCompleted /\ NobodyCompleted
  BY DEF StaysCompleted, NobodyCompleted

(* A row fails whose task is not completed, or has a gate. *)
LEMMA FailLeavesCompleted ==
    ASSUME TypeOK, NEW c \in CtxIds, FailDispatch(c), UNCHANGED gates,
           \/ tstatus[ctxs[c].task] # "completed"
           \/ GatesOf(ctxs[c].task) # {}
    PROVE  StaysCompleted /\ NobodyCompleted
  <1>0. PICK t \in Tasks : t = ctxs[c].task
    BY RowTypes
  <1>1. PICK back \in {"failed", "ready"} : tstatus' = WithStatus(t, back)
    BY <1>0 DEF FailDispatch
  <1>2. /\ \A u \in Tasks \ {t} : tstatus'[u] = tstatus[u]
        /\ tstatus'[t] \in {back, tstatus[t]}
    BY <1>1 DEF WithStatus, TypeOK
  <1>. QED  BY <1>0, <1>2 DEF StaysCompleted, NobodyCompleted

(* The status of a task is set to something else, the others' is not; the   *)
(* task was not completed, or has a gate by then.                           *)
LEMMA SetLeavesCompleted ==
    ASSUME TypeOK, NEW t \in Tasks, NEW s, s # "completed",
           \/ tstatus' = [tstatus EXCEPT ![t] = s]
           \/ tstatus' = WithStatus(t, s),
           \/ tstatus[t] # "completed"
           \/ GatesOf(t) # {}
           \/ GatesOf(t)' # {}
    PROVE  StaysCompleted /\ NobodyCompleted
  <1>1. /\ \A u \in Tasks \ {t} : tstatus'[u] = tstatus[u]
        /\ tstatus'[t] \in {s, tstatus[t]}
    BY DEF WithStatus, TypeOK
  <1>. QED  BY <1>1 DEF StaysCompleted, NobodyCompleted

(* A report, at its send or from the mailbox. *)
LEMMA ReportCompletes ==
    ASSUME TypeOK, NEW c \in Begun, ReconcileWorkerDone(c)
    PROVE  StaysCompleted /\ CompletedByBegun
  <1>1. CASE Accepts(c)
    <2>. DEFINE t == ctxs[c].task
    <2>1. /\ c \in CtxIds /\ IsLast(c, RowsOf(t)) /\ tstatus[t] = "dispatched"
          /\ tstatus' = PromoteReadyTasks([tstatus EXCEPT ![t] = "completed"], t)
      BY <1>1 DEF Accepts, RowsOf, ReconcileWorkerDone, WorkerDone, UpdateTaskStatus
    <2>2. t \in Tasks
      BY <2>1, RowTypes
    <2>. HIDE DEF t
    <2>3. \A u \in Tasks \ {t} : \/ tstatus'[u] = tstatus[u]
                                 \/ tstatus[u] = "pending" /\ tstatus'[u] = "ready"
      BY <2>1, <2>2 DEF PromoteReadyTasks, TypeOK
    <2>. QED  BY <2>1, <2>2, <2>3 DEF StaysCompleted, CompletedByBegun
  <1>2. CASE ~Accepts(c)
    BY <1>2, SameStatuses DEF ReconcileWorkerDone, vars, NobodyCompleted, CompletedByBegun
  <1>. QED  BY <1>1, <1>2

LEMMA NobodyIsFine == NobodyCompleted => CompletedByBegun
  BY DEF NobodyCompleted, CompletedByBegun

LEMMA GateLeavesCompleted ==
    ASSUME TypeOK, NEW t \in Tasks, CreateGate(t)
    PROVE  StaysCompleted /\ NobodyCompleted
  <1>. DEFINE gate == [task |-> t, status |-> "pending"]
              new == Len(gates) + 1
  <1>1. gates' = Append(gates, gate) /\ tstatus' = WithStatus(t, "blocked")
    BY DEF CreateGate
  <1>2. new \in DOMAIN gates' /\ gates'[new] = gate
    <2>1. gate \in GateRow /\ gates \in Seq(GateRow)
      BY DEF GateRow, TypeOK
    <2>2. gates' \in Seq(GateRow) /\ Len(gates') = new
      BY <1>1, <2>1, AppendProperties
    <2>3. DOMAIN gates' = 1 .. new /\ Len(gates) \in Nat
      BY <2>1, <2>2, LenProperties
    <2>. HIDE DEF gate
    <2>. QED  BY <1>1, <2>1, <2>3, AppendProperties
  <1>3. GatesOf(t)' # {}
    BY <1>2 DEF GatesOf
  <1>. QED  BY <1>1, <1>3, SetLeavesCompleted

-----------------------------------------------------------------------------
(* The mailbox *)

(* A message is sent: only a completion report adds to the reports. *)
LEMMA PostReports ==
    ASSUME CInv, NEW type, NEW t, NEW c, Post(type, t, c)
    PROVE  Reported' \subseteq Reported \cup {c} /\ (type # "worker_done" => Reported' = Reported)
  <1>. DEFINE m == [type |-> type, task |-> t, ctx |-> c]
  <1>1. inbox' = Append(inbox, m) /\ inbox \in Seq(Message)
    BY DEF Post, CInv, CTypeOK
  <1>2. /\ DOMAIN inbox = 1 .. Len(inbox) /\ Len(inbox) \in Nat
        /\ DOMAIN inbox' = 1 .. (Len(inbox) + 1)
        /\ inbox'[Len(inbox) + 1] = m
        /\ \A k \in 1 .. Len(inbox) : inbox'[k] = inbox[k]
    BY <1>1 DEF m
  <1>. QED  BY <1>2 DEF Reported

LEMMA TailReports ==
    ASSUME CInv, inbox # <<>>, inbox' = Tail(inbox)
    PROVE  /\ Reported' \subseteq Reported
           /\ Head(inbox).type = "worker_done" => Head(inbox).ctx \in Reported
  <1>1. inbox \in Seq(Message)
    BY DEF CInv, CTypeOK
  <1>2. /\ DOMAIN inbox = 1 .. Len(inbox) /\ Len(inbox) \in Nat /\ 1 \in DOMAIN inbox
        /\ Head(inbox) = inbox[1]
        /\ \A k \in DOMAIN inbox' : k + 1 \in DOMAIN inbox /\ inbox'[k] = inbox[k + 1]
    BY <1>1
  <1>. QED  BY <1>2 DEF Reported

-----------------------------------------------------------------------------
(* The turn of a loop *)

(* What a step has to keep, beside AInv. *)
Kept == StaysCompleted /\ Begun' \subseteq CtxIds' /\ Unbegun'

(* A loop that does not end up at its prompt: the others are over. *)
LEMMA TurnElsewhere ==
    ASSUME NEW r \in RunIds, Turn(r), loops'[r].pc # "send", StaysCompleted,
           Begun' \subseteq CtxIds'
    PROVE  Kept
  <1>1. \A q \in RunIds' : loops'[q].pc # "send"
    BY DEF Turn, Ended
  <1>. QED  BY <1>1 DEF Kept, Unbegun

LEMMA MessageKeeps ==
    ASSUME UInv, NEW r \in RunIds, Turn(r), ProcessMessage(r)
    PROVE  StaysCompleted /\ loops'[r].pc # "send" /\ Begun' \subseteq Begun
  <1>. USE DEF UInv, AInv, CInv
  <1>1. /\ loops[r].pc = "messages" /\ inbox # <<>> /\ inbox' = Tail(inbox)
        /\ UNCHANGED working
        /\ DOMAIN loops = RunIds /\ loops[r] \in Loop
    BY LoopTypes DEF ProcessMessage, At
  <1>2. loops'[r].pc = "messages"
    BY <1>1 DEF ProcessMessage, Loop
  <1>3. Begun' \subseteq Begun
    BY <1>1, TailReports DEF Begun
  <1>4. Head(inbox).task \in Tasks
    <2>1. Head(inbox) \in Message
      BY <1>1, HeadTailProperties DEF CTypeOK
    <2>. QED  BY <2>1 DEF Message
  <1>5. StaysCompleted
    <2>1. CASE Head(inbox).type = "worker_done" /\ ReconcileWorkerDone(Head(inbox).ctx)
      BY <1>1, <2>1, TailReports, ReportCompletes DEF Begun
    <2>2. CASE CreateGate(Head(inbox).task)
      BY <1>4, <2>2, GateLeavesCompleted
    <2>3. CASE HandleEscalation(Head(inbox).task)
      <3>1. PICK c \in CtxIds : IsLast(c, RowsOf(Head(inbox).task)) /\ FailDispatch(c)
        BY <2>3 DEF HandleEscalation
      <3>2. ctxs[c].task = Head(inbox).task
        BY <3>1 DEF IsLast, RowsOf
      <3>3. tstatus[ctxs[c].task] # "completed" /\ UNCHANGED gates
        BY <2>3, <3>2 DEF HandleEscalation
      <3>. QED  BY <3>1, <3>3, FailLeavesCompleted
    <2>4. CASE UNCHANGED vars
      BY <2>4, SameStatuses DEF vars
    <2>. QED  BY <2>1, <2>2, <2>3, <2>4 DEF ProcessMessage
  <1>. QED  BY <1>2, <1>3, <1>5

LEMMA ReblockKeeps ==
    ASSUME UInv, NEW r \in RunIds, NEW g \in DOMAIN gates, ProcessDecisionGate(r, g)
    PROVE  StaysCompleted /\ loops'[r].pc # "send" /\ Begun' = Begun
  <1>. USE DEF UInv, AInv, CInv
  <1>1. /\ ReblockGatedTask(g) /\ UNCHANGED <<loops, inbox, working>>
        /\ loops[r].pc = "messages"
    BY DEF ProcessDecisionGate, At, coordination
  <1>2. gates[g].task \in Tasks /\ GatesOf(gates[g].task) # {}
    BY GateTypes DEF GatesOf
  <1>3. tstatus' = [tstatus EXCEPT ![gates[g].task] = "blocked"]
    BY <1>1 DEF ReblockGatedTask, UpdateTaskStatus
  <1>4. StaysCompleted
    BY <1>2, <1>3, SetLeavesCompleted
  <1>. QED  BY <1>1, <1>4 DEF Begun, Reported

(* The steps that leave the tables alone. *)
LEMMA CalmKeeps ==
    ASSUME UInv, NEW r \in RunIds,
           \/ TakeSnapshot(r)
           \/ \E targets \in {LiveHandles \ BusyHandles, {}} : ListTerminals(r, targets)
           \/ CreateTerminal(r) \/ CreateTerminalFails(r)
           \/ PickTask(r) \/ NothingToPick(r)
           \/ SkipStaleBase(r) \/ DispatchRefused(r) \/ LoopPromptSent(r)
           \/ CheckConvergence(r) \/ Wake(r)
    PROVE  StaysCompleted /\ loops'[r].pc # "send" /\ Begun' \subseteq CtxIds
  <1>. USE DEF UInv, AInv, CInv
  <1>0. DOMAIN loops = RunIds /\ loops[r] \in Loop
    BY LoopTypes
  <1>1. UNCHANGED <<tstatus, gates, inbox>>
    BY DEF TakeSnapshot, ListTerminals, CreateTerminal, PaneRestart, CreateTerminalFails,
           PickTask, NothingToPick, SkipStaleBase, DispatchRefused, LoopPromptSent, PromptSent,
           CheckConvergence, Wake, vars, tables
  <1>2. Begun' \subseteq CtxIds
    <2>1. CASE LoopPromptSent(r)
      <3>1. loops[r].ctx \in CtxIds /\ working' = working \cup {loops[r].ctx}
        BY <2>1 DEF LoopPromptSent, At, SendOwns
      <3>. QED  BY <1>1, <3>1 DEF Begun, Reported
    <2>2. CASE ~LoopPromptSent(r)
      <3>1. UNCHANGED working
        BY <2>2 DEF TakeSnapshot, ListTerminals, CreateTerminal, CreateTerminalFails,
           PickTask, NothingToPick, SkipStaleBase, DispatchRefused, CheckConvergence, Wake
      <3>. QED  BY <1>1, <3>1 DEF Begun, Reported
    <2>. QED  BY <2>1, <2>2
  <1>3. ASSUME TakeSnapshot(r)  PROVE loops'[r].pc # "send"
    BY <1>0, <1>3 DEF TakeSnapshot, Loop
  <1>4. ASSUME NEW targets, ListTerminals(r, targets)  PROVE loops'[r].pc # "send"
    BY <1>0, <1>4 DEF ListTerminals, Loop
  <1>5. ASSUME CreateTerminal(r)  PROVE loops'[r].pc # "send"
    BY <1>0, <1>5 DEF CreateTerminal, Loop
  <1>6. ASSUME CreateTerminalFails(r) \/ NothingToPick(r)  PROVE loops'[r].pc # "send"
    BY <1>0, <1>6 DEF CreateTerminalFails, NothingToPick, Goto, Loop
  <1>7. ASSUME PickTask(r)  PROVE loops'[r].pc # "send"
    <2>1. PICK t \in loops[r].todo, h \in loops[r].targets :
            loops' = [loops EXCEPT ![r].todo = @ \ {t}, ![r].targets = @ \ {h},
                                   ![r].slots = @ - 1, ![r].job = <<t, h>>, ![r].pc = "probe"]
      BY <1>7 DEF PickTask
    <2>2. loops'[r].pc = "probe"
      BY <1>0, <2>1 DEF Loop
    <2>. QED  BY <2>2
  <1>8. ASSUME SkipStaleBase(r) \/ DispatchRefused(r) \/ LoopPromptSent(r)
        PROVE  loops'[r].pc # "send"
    BY <1>0, <1>8 DEF SkipStaleBase, DispatchRefused, LoopPromptSent, JobDone, Loop
  <1>9. ASSUME CheckConvergence(r) \/ Wake(r)  PROVE loops'[r].pc # "send"
    BY <1>0, <1>9 DEF CheckConvergence, Wake, EndRun, Between, Goto, Loop
  <1>10. loops'[r].pc # "send"
    BY <1>3, <1>4, <1>5, <1>6, <1>7, <1>8, <1>9, Zenon
  <1>. QED  BY <1>1, <1>2, <1>10, SameStatuses

(* The row is written: it is new, so nobody has worked on it. *)
LEMMA OpenKeeps ==
    ASSUME UInv, NEW r \in RunIds, Turn(r), OpenDispatch(r), CtxIds \subseteq CtxIds'
    PROVE  Kept
  <1>. USE DEF UInv, AInv, CInv
  <1>1. DOMAIN loops = RunIds /\ loops[r] \in Loop /\ UNCHANGED <<inbox, working>>
    BY LoopTypes DEF OpenDispatch
  <1>2. loops[r].job \in Tasks \X Handles
    BY <1>1 DEF OpenDispatch, At, JobKnown, Loop, Jobs
  <1>3. PICK t \in Tasks, h \in Handles : DispatchTask(t, h, TRUE)
    BY <1>2 DEF OpenDispatch
  <1>4. /\ tstatus' = [tstatus EXCEPT ![t] = "dispatched"] /\ tstatus[t] = "ready"
        /\ UNCHANGED gates
    BY <1>3 DEF DispatchTask, CreateDispatchContext
  <1>5. StaysCompleted
    BY <1>4, SetLeavesCompleted
  <1>6. \A c : c = Len(ctxs) + 1 => c \in CtxIds' /\ ctxs'[c].task = t /\ c \notin CtxIds
    <2>1. GatedBlocked
      BY ElsewhereBlocked DEF OpenDispatch, At
    <2>2. \A c : c = Len(ctxs) + 1 => c \in CtxIds' /\ ctxs'[c].task = t
      BY <1>3, <2>1, DispatchKeepsTables
    <2>. QED  BY <2>2, RowTypes
  <1>7. loops'[r].pc = "send" /\ loops'[r].ctx = Len(ctxs) + 1
    BY <1>1 DEF OpenDispatch, Loop
  <1>8. Begun' = Begun
    BY <1>1 DEF Begun, Reported
  <1>9. tstatus'[t] = "dispatched"
    BY <1>4 DEF TypeOK
  <1>10. Unbegun'
    <2>1. \A q \in RunIds' : loops'[q].pc = "send" => q = r
      BY DEF Turn, Ended
    <2>. QED  BY <2>1, <1>6, <1>7, <1>8, <1>9 DEF Unbegun
  <1>. QED  BY <1>5, <1>8, <1>10 DEF Kept

(* The prompt was not sent: nobody has worked on the row, so the task is    *)
(* not completed.                                                           *)
LEMMA FailedPromptKeeps ==
    ASSUME UInv, NEW r \in RunIds, LoopPromptFailed(r)
    PROVE  StaysCompleted /\ loops'[r].pc # "send" /\ Begun' = Begun
  <1>. USE DEF UInv, AInv, CInv
  <1>0. DOMAIN loops = RunIds /\ loops[r] \in Loop /\ UNCHANGED <<inbox, working>>
    BY LoopTypes DEF LoopPromptFailed
  <1>1. PICK c \in CtxIds : c = loops[r].ctx
    BY DEF LoopPromptFailed, At, SendOwns
  <1>2. FailDispatch(c) /\ UNCHANGED gates /\ tstatus[ctxs[c].task] # "completed"
    BY <1>1 DEF LoopPromptFailed, At, Unbegun, PromptFailed, Tables, NothingDeleted
  <1>3. loops'[r].pc = "next"
    BY <1>0 DEF LoopPromptFailed, JobDone, Loop
  <1>. QED  BY <1>0, <1>2, <1>3, FailLeavesCompleted DEF Begun, Reported

LEMMA LoopKeeps ==
    ASSUME UInv, NEW r \in RunIds, LoopStep(r), CtxIds \subseteq CtxIds'
    PROVE  Kept
  <1>. USE DEF UInv, AInv
  <1>1. Turn(r)
    BY LoopStepIsTurn
  <1>2. CASE OpenDispatch(r)
    BY <1>1, <1>2, OpenKeeps
  <1>3. CASE ~OpenDispatch(r)
    <2>1. StaysCompleted /\ loops'[r].pc # "send" /\ Begun' \subseteq CtxIds
      <3>1. ASSUME NEW g \in DOMAIN gates, ProcessDecisionGate(r, g)
            PROVE  StaysCompleted /\ loops'[r].pc # "send" /\ Begun' \subseteq CtxIds
        BY <3>1, ReblockKeeps
      <3>2. CASE ProcessMessage(r)
        BY <1>1, <3>2, MessageKeeps
      <3>3. CASE LoopPromptFailed(r)
        BY <3>3, FailedPromptKeeps
      <3>. QED  BY <1>3, <3>1, <3>2, <3>3, CalmKeeps, Zenon DEF LoopStep
    <2>. QED  BY <1>1, <2>1, TurnElsewhere
  <1>. QED  BY <1>2, <1>3

-----------------------------------------------------------------------------
(* Runs, workers and people *)

(* Between the turns of the loops: the awaited dispatch is not completed,   *)
(* because only a row that was begun completes the task it is the newest of.*)
LEMMA OthersKeep ==
    ASSUME UInv, RunIds' = RunIds,
           \A r \in RunIds : loops'[r].pc = loops[r].pc /\ loops'[r].ctx = loops[r].ctx,
           StaysCompleted, CompletedByBegun, RetiresOnly, Begun' \subseteq Begun
    PROVE  Kept
  <1>. USE DEF UInv, AInv, CInv
  <1>1. Begun' \subseteq CtxIds'
    BY DEF RetiresOnly, CtxIds
  <1>2. Unbegun'
    <2>. SUFFICES ASSUME NEW r \in RunIds, loops[r].pc = "send", NEW c, c = loops[r].ctx
                  PROVE  c \notin Begun' /\ tstatus'[ctxs'[c].task] # "completed"
      BY DEF Unbegun
    <2>1. c \in CtxIds /\ Newest(c) /\ c \notin Begun /\ tstatus[ctxs[c].task] # "completed"
      BY DEF SendOwns, Unbegun
    <2>2. ctxs'[c].task = ctxs[c].task /\ ctxs[c].task \in Tasks
      BY <2>1, RowTypes DEF RetiresOnly
    <2>3. \A d \in Begun : ~IsLast(d, RowsOf(ctxs[c].task))
      <3>. SUFFICES ASSUME NEW d \in Begun, IsLast(d, RowsOf(ctxs[c].task))  PROVE FALSE
        OBVIOUS
      <3>1. d \in CtxIds /\ ctxs[d].task = ctxs[c].task /\ Newest(d)
        BY NewestIsLast DEF Tables
      <3>2. c <= d /\ d <= c
        BY <2>1, <3>1 DEF Newest
      <3>. QED  BY <2>1, <3>1, <3>2, RowTypes
    <2>. QED  BY <2>1, <2>2, <2>3 DEF CompletedByBegun
  <1>. QED  BY <1>1, <1>2 DEF Kept

LEMMA WorkerKeeps ==
    ASSUME UInv, NEW c \in working,
           WorkerReports(c) \/ WorkerEscalates(c) \/ WorkerAsksForGate(c)
    PROVE  Kept
  <1>. USE DEF UInv, AInv, CInv
  <1>1. UNCHANGED <<runs, loops>> /\ c \in Begun
    BY DEF WorkerReports, WorkerEscalates, WorkerAsksForGate, coordination, Begun
  <1>2. CASE WorkerReports(c)
    <2>1. ReconcileWorkerDone(c) /\ working' \subseteq working
          /\ Post("worker_done", ctxs[c].task, c)
      BY <1>2 DEF WorkerReports
    <2>2. Begun' \subseteq Begun
      BY <1>1, <2>1, PostReports DEF Begun
    <2>3. RetiresOnly
      BY <2>1, ReportKeepsTables
    <2>. QED  BY <1>1, <2>1, <2>2, <2>3, ReportCompletes, OthersKeep DEF RunIds
  <1>3. CASE WorkerEscalates(c) \/ WorkerAsksForGate(c)
    <2>1. UNCHANGED <<tstatus, gates, ctxs, working>>
          /\ \/ Post("escalation", ctxs[c].task, c)
             \/ Post("decision_gate", ctxs[c].task, c)
      BY <1>3 DEF WorkerEscalates, WorkerAsksForGate, vars
    <2>2. Begun' \subseteq Begun
      BY <2>1, PostReports DEF Begun
    <2>. QED  BY <1>1, <2>1, <2>2, SameStatuses, NobodyIsFine, OthersKeep DEF RunIds, RetiresOnly
  <1>. QED  BY <1>2, <1>3

(* A worker exits: its dispatch was in progress, so its task was dispatched *)
(* or has a gate.                                                           *)
LEMMA ExitKeeps ==
    ASSUME UInv, NEW p \in Panes, WorkerExits(p)
    PROVE  Kept
  <1>. USE DEF UInv, AInv, CInv
  <1>1. /\ UNCHANGED <<runs, loops, gates>> /\ AgentExit(p) /\ working' \subseteq working
        /\ \/ UNCHANGED inbox
           \/ \E c \in CtxIds : Post("escalation", ctxs[c].task, 0)
    BY DEF WorkerExits, AgentExit, coordination
  <1>2. Begun' \subseteq Begun
    <2>1. CASE UNCHANGED inbox
      BY <1>1, <2>1 DEF Begun, Reported
    <2>2. ASSUME NEW c \in CtxIds, Post("escalation", ctxs[c].task, 0)
          PROVE  Begun' \subseteq Begun
      BY <1>1, <2>2, PostReports DEF Begun
    <2>. QED  BY <1>1, <2>1, <2>2
  <1>3. CASE UNCHANGED <<ctxs, tstatus>>
    BY <1>1, <1>2, <1>3, SameStatuses, NobodyIsFine, OthersKeep DEF RunIds, RetiresOnly
  <1>4. ASSUME NEW c \in CtxIds, Active(c), FailDispatch(c)  PROVE Kept
    <2>1. tstatus[ctxs[c].task] # "completed" \/ GatesOf(ctxs[c].task) # {}
      BY <1>4 DEF Tables, Awaited, OnceGated
    <2>2. StaysCompleted /\ CompletedByBegun
      BY <1>1, <1>4, <2>1, FailLeavesCompleted, NobodyIsFine
    <2>3. RetiresOnly
      BY <1>4, FailDispatchStep DEF NoNewDispatch
    <2>. QED  BY <1>1, <1>2, <2>2, <2>3, OthersKeep DEF RunIds
  <1>. QED  BY <1>1, <1>3, <1>4 DEF AgentExit, Occupies

LEMMA PeopleKeep ==
    ASSUME UInv,
           \/ \E g \in DOMAIN gates : AnswerGate(g)
           \/ \E t \in Tasks, ds \in SUBSET Tasks : AddTask(t, ds)
    PROVE  Kept
  <1>. USE DEF UInv, AInv, CInv
  <1>1. UNCHANGED <<runs, loops, inbox, working, ctxs>>
    BY DEF AnswerGate, ResolveGate, AddTask, CreateTask, coordination
  <1>2. ASSUME NEW g \in DOMAIN gates, AnswerGate(g)  PROVE StaysCompleted /\ NobodyCompleted
    <2>1. gates[g].task \in Tasks /\ GatesOf(gates[g].task) # {}
      BY GateTypes DEF GatesOf
    <2>2. tstatus' = WithStatus(gates[g].task, "ready")
      BY <1>2 DEF AnswerGate, ResolveGate
    <2>. QED  BY <2>1, <2>2, SetLeavesCompleted
  <1>3. ASSUME NEW t \in Tasks, NEW ds \in SUBSET Tasks, AddTask(t, ds)
        PROVE  StaysCompleted /\ NobodyCompleted
    <2>1. PICK s \in {"ready", "pending"} : tstatus' = [tstatus EXCEPT ![t] = s]
      BY <1>3 DEF AddTask, CreateTask
    <2>2. tstatus[t] # "completed"
      BY <1>3 DEF AddTask, CreateTask
    <2>. QED  BY <2>1, <2>2, SetLeavesCompleted
  <1>4. StaysCompleted /\ CompletedByBegun
    BY <1>2, <1>3, NobodyIsFine
  <1>. QED  BY <1>1, <1>4, OthersKeep DEF RunIds, RetiresOnly, Begun, Reported

LEMMA StopKeeps ==
    ASSUME UInv, RunStop
    PROVE  Kept
  <1>. USE DEF UInv, AInv, CInv
  <1>1. /\ UNCHANGED <<runs, tstatus, ctxs, gates, inbox, working>>
        /\ loops' = [r \in RunIds |->
                IF r = active THEN [loops[r] EXCEPT !.stopped = TRUE] ELSE loops[r]]
    BY DEF RunStop, vars
  <1>2. \A r \in RunIds : loops[r] \in Loop
    BY LoopTypes
  <1>3. \A r \in RunIds : loops'[r].pc = loops[r].pc /\ loops'[r].ctx = loops[r].ctx
    BY <1>1, <1>2 DEF Loop
  <1>. QED  BY <1>1, <1>3, SameStatuses, NobodyIsFine, OthersKeep
            DEF RunIds, RetiresOnly, Begun, Reported

(* A run is started when no loop lives, and it starts at its messages. *)
LEMMA StartKeeps ==
    ASSUME UInv, StartRun
    PROVE  Kept
  <1>. USE DEF UInv, AInv, CInv
  <1>. DEFINE to == IF Existing = {} THEN "done" ELSE "messages"
              l == [pc |-> to, stopped |-> FALSE, broke |-> FALSE, todo |-> {},
                    targets |-> {}, slots |-> 0, job |-> <<>>, ctx |-> 0]
  <1>1. /\ Running = {} /\ UNCHANGED <<tstatus, ctxs, gates, inbox, working>>
        /\ loops' = Append(loops, l)
    BY DEF StartRun, vars
  <1>2. \A r \in RunIds : loops[r].pc # "send"
    BY <1>1 DEF Running, RunningRowHasLoop
  <1>3. l.pc # "send"
    OBVIOUS
  <1>4. \A r \in RunIds' : loops'[r].pc # "send"
    <2>1. RunIds = 1 .. Len(loops) /\ loops \in Seq(Loop) /\ Len(loops) \in Nat
      BY LoopTypes DEF CTypeOK
    <2>2. RunIds' = 1 .. Len(loops) + 1
      BY LoopTypes DEF StartRun, RunIds, CTypeOK
    <2>. HIDE DEF l
    <2>3. loops'[Len(loops) + 1] = l /\ \A k \in 1 .. Len(loops) : loops'[k] = loops[k]
      BY <1>1, <2>1, AppendProperties
    <2>. QED  BY <1>2, <1>3, <2>1, <2>2, <2>3
  <1>. QED  BY <1>1, <1>4, SameStatuses DEF Kept, Unbegun, Begun, Reported, CtxIds

-----------------------------------------------------------------------------
(* The theorem *)

LEMMA UStep ==
    ASSUME UInv, [CNext]_cvars
    PROVE  UInv' /\ StaysCompleted
  <1>1. AInv'
    BY AloneStep DEF UInv
  <1>2. CASE CNext
    <2>1. CtxIds \subseteq CtxIds'
      <3>1. [Next]_vars
        BY <1>2, IsTableStep DEF OpenNext, UInv, AInv
      <3>. QED  BY <3>1, RowsStay DEF UInv, AInv, CInv
    <2>2. Kept
      BY <1>2, <2>1, StartKeeps, StopKeeps, LoopKeeps, WorkerKeeps, ExitKeeps, PeopleKeep,
         Zenon DEF CNext
    <2>. QED  BY <1>1, <2>2 DEF UInv, Kept
  <1>3. CASE UNCHANGED cvars
    <2>1. UNCHANGED <<tstatus, ctxs, gates, runs, loops, inbox, working>>
      BY <1>3 DEF cvars, vars
    <2>2. Begun' \subseteq CtxIds' /\ Unbegun'
      BY <2>1 DEF UInv, Unbegun, Begun, Reported, RunIds, CtxIds
    <2>. QED  BY <1>1, <2>1, <2>2, SameStatuses DEF UInv
  <1>. QED  BY <1>2, <1>3

LEMMA InitU == CInit => UInv
  BY InitAlone DEF CInit, Init, UInv, Begun, Reported, Unbegun, RunIds

LEMMA UTheorem == CSpec => []UInv
  BY InitU, UStep, PTL DEF CSpec

(* A completed task that no gate names stays completed until a gate does,   *)
(* whatever prompts, exits, escalations and retries were under way when its *)
(* report was accepted: db.ts, failDispatch and its callers.                *)
THEOREM CompletionStays == CSpec => CompletionIsFinal
  <1>1. UInv /\ [CNext]_cvars =>
            [\A t \in Tasks :
                tstatus[t] = "completed" /\ GatesOf(t) = {} =>
                    tstatus'[t] = "completed" \/ GatesOf(t)' # {}]_cvars
    BY UStep DEF StaysCompleted
  <1>. QED  BY <1>1, UTheorem, PTL DEF CSpec, CompletionIsFinal

=============================================================================
