------------------------- MODULE CoordinatorProofs -------------------------
(***************************************************************************)
(* Theorems of module Coordinator.  Whatever coordinators, workers and     *)
(* other callers do, in whatever order, each of their steps is a step of   *)
(* the tables or leaves them alone (ImplementsTables), so the theorems of  *)
(* DispatchProofs hold for the whole system.  The invariant this takes is  *)
(* that messages name tasks, workers name rows, and a loop that is about   *)
(* to dispatch knows its task and its terminal.                            *)
(***************************************************************************)
EXTENDS Coordinator, DispatchProofs, FiniteSetTheorems

(* A loop whose probe is awaited has picked a task and a terminal. *)
JobKnown == \A r \in RunIds : loops[r].pc = "probe" => loops[r].job # <<>>

CInv ==
    /\ TypeOK
    /\ Len(ctxs) <= MaxDispatches
    /\ CTypeOK
    /\ JobKnown

Ended == {"done", "dead"}

(* Loop r goes on to place l.pc, or it ends and its row with it. *)
LoopMoves(r) ==
    /\ loops[r].pc \notin Ended
    /\ \E l \in Loop :
        /\ loops' = [loops EXCEPT ![r] = l]
        /\ l.pc = "probe" => l.job # <<>>
        /\ \/ l.pc \notin Ended /\ UNCHANGED <<runs, active>>
           \/ l.pc = "done" /\ EndRun(r)

-----------------------------------------------------------------------------
(* What the type invariant says, entry by entry *)

LEMMA LoopTypes ==
    ASSUME CTypeOK
    PROVE  /\ Len(runs) \in Nat
           /\ RunIds = 1 .. Len(runs)
           /\ runs \in [RunIds -> {"running", "completed", "failed", "deleted"}]
           /\ loops \in [RunIds -> Loop]
  <1>1. /\ runs \in Seq({"running", "completed", "failed", "deleted"})
        /\ loops \in Seq(Loop)
        /\ Len(loops) = Len(runs)
    BY DEF CTypeOK
  <1>. QED  BY <1>1, LenProperties DEF RunIds

(* The rows of the dispatch table are never renumbered, and stay within the *)
(* bound.                                                                   *)
LEMMA RowsStay ==
    ASSUME TypeOK, Len(ctxs) <= MaxDispatches, [Next]_vars
    PROVE  TypeOK' /\ Len(ctxs') <= MaxDispatches /\ CtxIds \subseteq CtxIds'
  <1>1. CASE UNCHANGED vars
    BY <1>1 DEF vars, TypeOK, CtxIds
  <1>2. ASSUME NEW t \in Tasks, NEW h \in Handles, NEW inject \in BOOLEAN,
               DispatchTask(t, h, inject)
        PROVE  TypeOK' /\ Len(ctxs') <= MaxDispatches /\ CtxIds \subseteq CtxIds'
    <2>1. /\ TypeOK'
          /\ Len(ctxs) + 1 \in 1 .. MaxDispatches
          /\ CtxIds' = CtxIds \cup {Len(ctxs) + 1}
      BY <1>2, DispatchTaskStep DEF CtxIds
    <2>2. CtxIds = 1 .. Len(ctxs) /\ Len(ctxs) \in Nat
      BY RowTypes
    <2>3. CtxIds' = 1 .. Len(ctxs') /\ Len(ctxs') \in Nat
      BY <2>1, LenProperties DEF TypeOK, CtxIds
    <2>. QED  BY <2>1, <2>2, <2>3, BoundsAssumption
  <1>3. CASE /\ Next
             /\ ~(\E t \in Tasks, h \in Handles, inject \in BOOLEAN :
                    DispatchTask(t, h, inject))
    <2>1. TypeOK' /\ CtxIds' = CtxIds
      BY <1>3, OtherStep DEF NoNewDispatch, RetiresOnly, CtxIds
    <2>2. CtxIds = 1 .. Len(ctxs) /\ Len(ctxs) \in Nat
      BY RowTypes
    <2>3. CtxIds' = 1 .. Len(ctxs') /\ Len(ctxs') \in Nat
      BY <2>1, LenProperties DEF TypeOK, CtxIds
    <2>. QED  BY <2>1, <2>2, <2>3, BoundsAssumption
  <1>. QED  BY <1>1, <1>2, <1>3

-----------------------------------------------------------------------------
(* Every step of the system is a step of the tables or leaves them alone *)

LEMMA ReconcileIsTableStep ==
    ASSUME TypeOK, NEW c, ReconcileWorkerDone(c)
    PROVE  [Next]_vars
  <1>1. CASE Accepts(c)
    <2>1. c \in CtxIds
      BY <1>1 DEF Accepts, RowsOf
    <2>2. /\ ctxs[c].task \in Tasks
          /\ ctxs[c].handle \in Handles
          /\ ctxs[c].pane \in Panes \cup {NoPane}
      BY <2>1, RowTypes
    <2>3. WorkerDone(ctxs[c].task, c, ctxs[c].handle, ctxs[c].pane)
      BY <1>1 DEF ReconcileWorkerDone
    <2>. QED  BY <2>1, <2>2, <2>3 DEF Next
  <1>2. CASE ~Accepts(c)
    BY <1>2 DEF ReconcileWorkerDone
  <1>. QED  BY <1>1, <1>2

(* The steps of a loop. *)
LEMMA LoopIsTableStep ==
    ASSUME CInv, NEW r \in RunIds, LoopStep(r)
    PROVE  [Next]_vars
  <1>. USE DEF CInv
  <1>1. CASE ProcessMessage(r)
    <2>1. Head(inbox) \in Message
      BY <1>1, HeadTailProperties DEF ProcessMessage, CTypeOK
    <2>2. Head(inbox).task \in Tasks
      BY <2>1 DEF Message
    <2>3. CASE ReconcileWorkerDone(Head(inbox).ctx)
      BY <2>3, ReconcileIsTableStep
    <2>4. CASE CreateGate(Head(inbox).task)
      BY <2>2, <2>4 DEF Next
    <2>5. CASE HandleEscalation(Head(inbox).task)
      BY <2>2, <2>5 DEF Next
    <2>6. CASE UNCHANGED vars
      BY <2>6
    <2>. QED  BY <1>1, <2>3, <2>4, <2>5, <2>6 DEF ProcessMessage
  <1>2. ASSUME NEW g \in DOMAIN gates, ProcessDecisionGate(r, g)
        PROVE  [Next]_vars
    BY <1>2 DEF ProcessDecisionGate, Next
  <1>3. CASE CreateTerminal(r)
    BY <1>3 DEF CreateTerminal, Next
  <1>4. CASE OpenDispatch(r)
    <2>1. loops[r].job \in Tasks \X Handles
      BY <1>4, LoopTypes DEF OpenDispatch, At, JobKnown, Loop, Jobs
    <2>2. loops[r].job[1] \in Tasks /\ loops[r].job[2] \in Handles
      BY <2>1
    <2>. QED  BY <1>4, <2>2 DEF OpenDispatch, Next
  <1>5. CASE LoopPromptSent(r)
    BY <1>5 DEF LoopPromptSent, PromptSent, Next
  <1>6. CASE LoopPromptFailed(r)
    BY <1>6 DEF LoopPromptFailed, PromptFailed, Next
  <1>7. CASE \/ TakeSnapshot(r) \/ CreateTerminalFails(r) \/ PickTask(r)
             \/ NothingToPick(r) \/ SkipStaleBase(r) \/ DispatchRefused(r)
             \/ CheckConvergence(r) \/ Wake(r)
    BY <1>7 DEF TakeSnapshot, CreateTerminalFails, PickTask, NothingToPick, SkipStaleBase,
                DispatchRefused, CheckConvergence, Wake
  <1>8. ASSUME NEW targets, ListTerminals(r, targets)
        PROVE  [Next]_vars
    BY <1>8 DEF ListTerminals
  <1>. QED  BY <1>1, <1>2, <1>3, <1>4, <1>5, <1>6, <1>7, <1>8 DEF LoopStep

LEMMA IsTableStep ==
    ASSUME CInv, OpenNext
    PROVE  [Next]_vars
  <1>. USE DEF CInv
  <1>1. CASE StartRun \/ RunStop
    BY <1>1 DEF StartRun, RunStop
  <1>2. ASSUME NEW r \in RunIds, LoopStep(r)  PROVE [Next]_vars
    BY <1>2, LoopIsTableStep
  <1>3. ASSUME NEW c \in working, WorkerReports(c) \/ WorkerEscalates(c) \/ WorkerAsksForGate(c)
        PROVE  [Next]_vars
    BY <1>3, ReconcileIsTableStep DEF WorkerReports, WorkerEscalates, WorkerAsksForGate
  <1>4. ASSUME NEW p \in Panes, WorkerExits(p)  PROVE [Next]_vars
    BY <1>4 DEF WorkerExits, Next
  <1>5. ASSUME NEW g \in DOMAIN gates, AnswerGate(g)  PROVE [Next]_vars
    BY <1>5 DEF AnswerGate, Next
  <1>6. ASSUME NEW t \in Tasks, NEW ds \in SUBSET Tasks, AddTask(t, ds)  PROVE [Next]_vars
    BY <1>6 DEF AddTask, Next
  <1>7. CASE CNext
    BY <1>1, <1>2, <1>3, <1>4, <1>5, <1>6, <1>7 DEF CNext
  <1>8. ASSUME NEW t \in Tasks, NEW h \in Handles, NEW inject \in BOOLEAN,
               RpcDispatch(t, h, inject)
        PROVE  [Next]_vars
    BY <1>8 DEF RpcDispatch, Next
  <1>9. ASSUME NEW c \in sending, RpcPromptSettles(c)  PROVE [Next]_vars
    BY <1>9 DEF RpcPromptSettles, Next
  <1>10. ASSUME NEW t \in Tasks, NEW s \in OperatorStatuses, RpcTaskUpdate(t, s)
         PROVE  [Next]_vars
    BY <1>10 DEF RpcTaskUpdate, Next
  <1>11. ASSUME NEW t \in Tasks, RpcGateCreate(t)  PROVE [Next]_vars
    BY <1>11 DEF RpcGateCreate, Next
  <1>12. ASSUME NEW p \in Panes, Reload(p)  PROVE [Next]_vars
    BY <1>12 DEF Reload, Next
  <1>13. ASSUME NEW all \in BOOLEAN, RpcReset(all)  PROVE [Next]_vars
    BY <1>13 DEF RpcReset, Next
  <1>14. ASSUME NEW survivors \in SUBSET alive, Restart(survivors)  PROVE [Next]_vars
    BY <1>14 DEF Restart, Next
  <1>. QED
    BY <1>7, <1>8, <1>9, <1>10, <1>11, <1>12, <1>13, <1>14, Zenon DEF OpenNext

-----------------------------------------------------------------------------
(* A step of a loop moves it on or ends it *)

LEMMA NoJob == <<>> \in Jobs
  BY DEF Jobs

LEMMA LoopFields ==
    ASSUME CTypeOK, NEW r \in RunIds
    PROVE  /\ loops[r] \in Loop
           /\ loops[r].stopped \in BOOLEAN
           /\ loops[r].broke \in BOOLEAN
           /\ loops[r].todo \subseteq Tasks
           /\ loops[r].targets \subseteq Handles
           /\ loops[r].slots \in 0 .. MaxConcurrent
  <1>1. loops[r] \in Loop
    BY LoopTypes
  <1>. QED  BY <1>1 DEF Loop

LEMMA NoContext == 0 \in 0 .. MaxDispatches
  BY BoundsAssumption

(* Updates of several fields of a loop, one lemma per group of fields. *)
WithJob(x, j, c, to) == [x EXCEPT !.job = j, !.ctx = c, !.pc = to]

LEMMA UpdateJob ==
    ASSUME NEW x \in Loop, NEW j \in Jobs, NEW c \in 0 .. MaxDispatches, NEW to \in Places
    PROVE  WithJob(x, j, c, to) \in Loop /\ WithJob(x, j, c, to).pc = to
  BY DEF Loop, WithJob

WithSnapshot(x, ts, n, to) == [x EXCEPT !.todo = ts, !.slots = n, !.pc = to]

LEMMA UpdateSnapshot ==
    ASSUME NEW x \in Loop, NEW ts \in SUBSET Tasks, NEW n \in 0 .. MaxConcurrent,
           NEW to \in Places
    PROVE  WithSnapshot(x, ts, n, to) \in Loop /\ WithSnapshot(x, ts, n, to).pc = to
  BY DEF Loop, WithSnapshot

WithTargets(x, hs, to) == [x EXCEPT !.targets = hs, !.pc = to]

LEMMA UpdateTargets ==
    ASSUME NEW x \in Loop, NEW hs \in SUBSET Handles, NEW to \in Places
    PROVE  WithTargets(x, hs, to) \in Loop /\ WithTargets(x, hs, to).pc = to
  BY DEF Loop, WithTargets

WithPick(x, ts, hs, n, j, to) ==
    [x EXCEPT !.todo = ts, !.targets = hs, !.slots = n, !.job = j, !.pc = to]

LEMMA UpdatePick ==
    ASSUME NEW x \in Loop, NEW ts \in SUBSET Tasks, NEW hs \in SUBSET Handles,
           NEW n \in 0 .. MaxConcurrent, NEW j \in Jobs, NEW to \in Places
    PROVE  /\ WithPick(x, ts, hs, n, j, to) \in Loop
           /\ WithPick(x, ts, hs, n, j, to).pc = to
           /\ WithPick(x, ts, hs, n, j, to).job = j
  BY DEF Loop, WithPick

LEMMA BetweenType ==
    ASSUME CTypeOK, NEW r \in RunIds, NEW to \in Places
    PROVE  Between(r, to) \in Loop /\ Between(r, to).pc = to
  BY LoopFields, NoJob, LoopBoundsAssumption, BoundsAssumption DEF Between, Loop

LEMMA GotoMoves ==
    ASSUME CTypeOK, NEW r \in RunIds, loops[r].pc \notin Ended,
           NEW to \in Places \ {"done", "dead", "probe"}, Goto(r, to), UNCHANGED <<runs, active>>
    PROVE  LoopMoves(r)
  <1>. DEFINE l == [loops[r] EXCEPT !.pc = to]
  <1>1. l \in Loop /\ l.pc = to
    BY LoopFields DEF Loop
  <1>2. loops' = [loops EXCEPT ![r] = l]
    BY DEF Goto
  <1>. HIDE DEF l
  <1>. QED  BY <1>1, <1>2 DEF LoopMoves, Ended

LEMMA JobDoneLoop ==
    ASSUME CTypeOK, NEW r \in RunIds
    PROVE  \E k \in Loop : k.pc = "next" /\ JobDone(r) = [loops EXCEPT ![r] = k]
  <1>. DEFINE k == WithJob(loops[r], <<>>, 0, "next")
  <1>1. k \in Loop /\ k.pc = "next"
    BY LoopFields, NoJob, NoContext, UpdateJob DEF Places, Sync
  <1>2. JobDone(r) = [loops EXCEPT ![r] = k]
    BY LoopTypes DEF JobDone, WithJob
  <1>. HIDE DEF k
  <1>. QED  BY <1>1, <1>2

LEMMA JobDoneMoves ==
    ASSUME CTypeOK, NEW r \in RunIds, loops[r].pc \notin Ended, UNCHANGED <<runs, active>>,
           \/ loops' = JobDone(r)
           \/ \E b \in BOOLEAN : loops' = [JobDone(r) EXCEPT ![r].broke = b]
    PROVE  LoopMoves(r)
  <1>1. PICK k \in Loop : k.pc = "next" /\ JobDone(r) = [loops EXCEPT ![r] = k]
    BY JobDoneLoop
  <1>2. CASE loops' = JobDone(r)
    BY <1>1, <1>2 DEF LoopMoves, Ended
  <1>3. ASSUME NEW b \in BOOLEAN, loops' = [JobDone(r) EXCEPT ![r].broke = b]
        PROVE  LoopMoves(r)
    <2>. DEFINE l == [k EXCEPT !.broke = b]
    <2>1. l \in Loop /\ l.pc = "next"
      BY <1>1 DEF Loop
    <2>2. loops' = [loops EXCEPT ![r] = l]
      BY <1>1, <1>3, LoopTypes
    <2>. HIDE DEF l
    <2>. QED  BY <2>1, <2>2 DEF LoopMoves, Ended
  <1>. QED  BY <1>2, <1>3

LEMMA EndRunMoves ==
    ASSUME CTypeOK, NEW r \in RunIds, loops[r].pc \notin Ended, EndRun(r)
    PROVE  LoopMoves(r)
  <1>1. Between(r, "done") \in Loop /\ Between(r, "done").pc = "done"
    BY BetweenType DEF Places
  <1>2. loops' = [loops EXCEPT ![r] = Between(r, "done")]
    BY DEF EndRun
  <1>. QED  BY <1>1, <1>2 DEF LoopMoves

(* A loop's step, with what it leaves in the mailbox and among the workers. *)
LEMMA LoopStepMoves ==
    ASSUME CInv, NEW r \in RunIds, LoopStep(r)
    PROVE  /\ LoopMoves(r)
           /\ inbox' \in Seq(Message)
           /\ working' \subseteq CtxIds
  <1>. USE DEF CInv
  <1>. DEFINE Moved == LoopMoves(r) /\ inbox' \in Seq(Message) /\ working' \subseteq CtxIds
  <1>0. \A from \in Places \ {"done", "dead"} : At(r, from) => loops[r].pc \notin Ended
    BY DEF At, Ended
  <1>1. ASSUME ProcessMessage(r)  PROVE Moved
    <2>1. inbox' \in Seq(Message) /\ UNCHANGED <<runs, active, working>>
      BY <1>1, HeadTailProperties DEF ProcessMessage, CTypeOK
    <2>2. PICK b \in BOOLEAN : loops' = [loops EXCEPT ![r].broke = b]
      BY <1>1, LoopFields DEF ProcessMessage
    <2>. DEFINE l == [loops[r] EXCEPT !.broke = b]
    <2>3. l \in Loop /\ l.pc = loops[r].pc
      BY LoopFields DEF Loop
    <2>4. loops' = [loops EXCEPT ![r] = l]
      BY <2>2
    <2>5. loops[r].pc = "messages"
      BY <1>1 DEF ProcessMessage, At
    <2>. HIDE DEF l
    <2>6. LoopMoves(r)
      BY <2>1, <2>3, <2>4, <2>5 DEF LoopMoves, Ended
    <2>. QED  BY <2>1, <2>6 DEF CTypeOK
  <1>2. ASSUME NEW g \in DOMAIN gates, ProcessDecisionGate(r, g)  PROVE Moved
    <2>1. UNCHANGED <<runs, loops, active, inbox, working>> /\ loops[r].pc = "messages"
      BY <1>2 DEF ProcessDecisionGate, At, coordination
    <2>2. loops[r] \in Loop /\ loops' = [loops EXCEPT ![r] = loops[r]]
      BY <2>1, LoopTypes
    <2>3. LoopMoves(r)
      BY <2>1, <2>2 DEF LoopMoves, Ended
    <2>. QED  BY <2>1, <2>3 DEF CTypeOK
  <1>3. ASSUME TakeSnapshot(r)  PROVE Moved
    <2>. DEFINE ready == {t \in Tasks : tstatus[t] = "ready"}
                busy == Cardinality(DispatchedTasks)
                room == IF busy < MaxConcurrent THEN MaxConcurrent - busy ELSE 0
                l == WithSnapshot(loops[r], ready, room, "list")
    <2>1. /\ loops[r].pc = "messages"
          /\ UNCHANGED <<runs, active, inbox, working>>
          /\ \/ Goto(r, "converge")
             \/ loops' = [loops EXCEPT ![r].todo = ready, ![r].slots = room, ![r].pc = "list"]
      BY <1>3 DEF TakeSnapshot, At, Goto
    <2>2. busy \in Nat
      BY TasksAssumption, FS_Subset, FS_CardinalityType DEF DispatchedTasks
    <2>3. room \in 0 .. MaxConcurrent
      <3>. HIDE DEF busy
      <3>. QED  BY <2>2, LoopBoundsAssumption
    <2>4. l \in Loop /\ l.pc = "list"
      <3>1. loops[r] \in Loop /\ ready \in SUBSET Tasks /\ "list" \in Places
        BY LoopFields DEF Places, Awaits
      <3>. HIDE DEF ready, room
      <3>. QED  BY <2>3, <3>1, UpdateSnapshot
    <2>5. CASE Goto(r, "converge")
      BY <2>1, <2>5, GotoMoves DEF CTypeOK, Places, Sync, Ended
    <2>6. CASE loops' = [loops EXCEPT ![r].todo = ready, ![r].slots = room, ![r].pc = "list"]
      <3>. HIDE DEF ready, room
      <3>1. loops' = [loops EXCEPT ![r] = l]
        BY <2>6, LoopTypes DEF WithSnapshot
      <3>. HIDE DEF l
      <3>. QED  BY <2>1, <2>4, <3>1 DEF LoopMoves, Ended, CTypeOK
    <2>. QED  BY <2>1, <2>5, <2>6
  <1>4. ASSUME NEW targets \in SUBSET Handles, NEW to \in {"create", "next"},
               loops[r].pc \in {"list", "create"},
               loops' = [loops EXCEPT ![r].targets = targets, ![r].pc = to],
               UNCHANGED <<runs, active, inbox, working>>
        PROVE  Moved
    <2>. DEFINE l == WithTargets(loops[r], targets, to)
    <2>1. l \in Loop /\ l.pc = to
      <3>1. loops[r] \in Loop /\ to \in Places
        BY LoopFields DEF Places, Sync, Awaits
      <3>. QED  BY <3>1, UpdateTargets
    <2>2. loops' = [loops EXCEPT ![r] = l]
      BY <1>4, LoopTypes DEF WithTargets
    <2>. HIDE DEF l
    <2>. QED  BY <1>4, <2>1, <2>2 DEF LoopMoves, Ended, CTypeOK
  <1>5. ASSUME NEW targets \in {LiveHandles \ BusyHandles, {}}, ListTerminals(r, targets)
        PROVE  Moved
    <2>1. targets \in SUBSET Handles
      BY DEF LiveHandles
    <2>. QED  BY <1>4, <1>5, <2>1 DEF ListTerminals, At
  <1>6. ASSUME CreateTerminal(r)  PROVE Moved
    <2>1. PICK p \in Panes :
            /\ PaneRestart(p)
            /\ loops' = [loops EXCEPT ![r].targets = {<<p, gen'[p]>>}, ![r].pc = "next"]
      BY <1>6 DEF CreateTerminal
    <2>2. gen'[p] \in 0 .. MaxRemints
      BY <2>1, BoundsAssumption DEF PaneRestart, TypeOK
    <2>3. {<<p, gen'[p]>>} \in SUBSET Handles
      BY <2>2 DEF Handles
    <2>. QED  BY <1>4, <1>6, <2>1, <2>3 DEF CreateTerminal, At
  <1>7. ASSUME CreateTerminalFails(r) \/ NothingToPick(r)  PROVE Moved
    <2>1. /\ loops[r].pc \notin Ended
          /\ Goto(r, "converge")
          /\ UNCHANGED <<runs, active, inbox, working>>
      BY <1>7 DEF CreateTerminalFails, NothingToPick, At, Ended
    <2>. QED  BY <2>1, GotoMoves DEF CTypeOK, Places, Sync
  <1>8. ASSUME PickTask(r)  PROVE Moved
    <2>1. PICK t \in loops[r].todo, h \in loops[r].targets :
            loops' = [loops EXCEPT ![r].todo = @ \ {t}, ![r].targets = @ \ {h},
                                   ![r].slots = @ - 1, ![r].job = <<t, h>>, ![r].pc = "probe"]
      BY <1>8 DEF PickTask
    <2>2. /\ loops[r].pc = "next" /\ loops[r].slots > 0
          /\ UNCHANGED <<runs, active, inbox, working>>
      BY <1>8 DEF PickTask, At
    <2>. DEFINE ts == loops[r].todo \ {t}
                hs == loops[r].targets \ {h}
                n == loops[r].slots - 1
                job == <<t, h>>
                l == WithPick(loops[r], ts, hs, n, job, "probe")
    <2>3. /\ ts \in SUBSET Tasks /\ hs \in SUBSET Handles /\ n \in 0 .. MaxConcurrent
          /\ "probe" \in Places
      BY <2>2, LoopFields, LoopBoundsAssumption DEF Places, Awaits
    <2>4. job \in Jobs /\ job # <<>>
      BY LoopFields DEF Jobs
    <2>5. loops' = [loops EXCEPT ![r] = l]
      BY <2>1, LoopTypes DEF WithPick
    <2>. HIDE DEF ts, hs, n, job
    <2>6. l \in Loop /\ l.pc = "probe" /\ l.job = job
      BY <2>3, <2>4, LoopFields, UpdatePick
    <2>. HIDE DEF l
    <2>. QED  BY <2>2, <2>4, <2>5, <2>6 DEF LoopMoves, Ended, CTypeOK
  <1>9. ASSUME SkipStaleBase(r) \/ DispatchRefused(r)  PROVE Moved
    <2>1. /\ loops[r].pc \notin Ended
          /\ loops' = JobDone(r)
          /\ UNCHANGED <<runs, active, inbox, working>>
      BY <1>9 DEF SkipStaleBase, DispatchRefused, At, Ended
    <2>. QED  BY <2>1, JobDoneMoves DEF CTypeOK
  <1>10. ASSUME OpenDispatch(r)  PROVE Moved
    <2>. DEFINE new == Len(ctxs) + 1
                l == WithJob(loops[r], <<>>, new, "send")
    <2>1. /\ loops[r].pc = "probe"
          /\ loops' = [loops EXCEPT ![r].job = <<>>, ![r].ctx = new, ![r].pc = "send"]
          /\ UNCHANGED <<runs, active, inbox, working>>
          /\ Len(ctxs) < MaxDispatches
      BY <1>10 DEF OpenDispatch, DispatchTask, CreateDispatchContext, At
    <2>2. new \in 0 .. MaxDispatches
      BY <2>1, RowTypes, BoundsAssumption
    <2>3. loops' = [loops EXCEPT ![r] = l]
      BY <2>1, LoopTypes DEF WithJob
    <2>. HIDE DEF new
    <2>4. l \in Loop /\ l.pc = "send"
      BY <2>2, LoopFields, NoJob, UpdateJob DEF Places, Awaits
    <2>. HIDE DEF l
    <2>. QED  BY <2>1, <2>3, <2>4 DEF LoopMoves, Ended, CTypeOK
  <1>11. ASSUME LoopPromptSent(r)  PROVE Moved
    <2>1. /\ loops[r].pc \notin Ended
          /\ loops' = JobDone(r)
          /\ UNCHANGED <<runs, active, inbox>>
          /\ working' = working \cup {loops[r].ctx}
          /\ loops[r].ctx \in sending
      BY <1>11 DEF LoopPromptSent, PromptSent, At, Ended
    <2>. QED  BY <2>1, JobDoneMoves DEF CTypeOK, TypeOK
  <1>12. ASSUME LoopPromptFailed(r)  PROVE Moved
    <2>1. /\ loops[r].pc \notin Ended
          /\ UNCHANGED <<runs, active, inbox, working>>
      BY <1>12 DEF LoopPromptFailed, At, Ended
    <2>2. PICK b : loops' = [JobDone(r) EXCEPT ![r].broke = b] /\ b \in BOOLEAN
      BY <1>12 DEF LoopPromptFailed
    <2>. QED  BY <2>1, <2>2, JobDoneMoves DEF CTypeOK
  <1>13. ASSUME CheckConvergence(r) \/ Wake(r)  PROVE Moved
    <2>1. loops[r].pc \notin Ended /\ UNCHANGED <<inbox, working>>
      BY <1>13 DEF CheckConvergence, Wake, At, Ended
    <2>2. CASE EndRun(r)
      BY <2>1, <2>2, EndRunMoves DEF CTypeOK
    <2>3. CASE Goto(r, "messages") /\ UNCHANGED <<runs, active>>
      BY <2>1, <2>3, GotoMoves DEF CTypeOK, Places, Sync
    <2>4. CASE loops' = [loops EXCEPT ![r] = Between(r, "sleep")] /\ UNCHANGED <<runs, active>>
      <3>1. Between(r, "sleep") \in Loop /\ Between(r, "sleep").pc = "sleep"
        BY BetweenType DEF Places, Awaits
      <3>. QED  BY <2>1, <2>4, <3>1 DEF LoopMoves, Ended, CTypeOK
    <2>. QED  BY <1>13, <2>2, <2>3, <2>4 DEF CheckConvergence, Wake
  <1>. HIDE DEF Moved
  <1>14. Moved
    BY <1>1, <1>2, <1>3, <1>5, <1>6, <1>7, <1>8, <1>9, <1>10, <1>11, <1>12, <1>13 DEF LoopStep
  <1>. QED  BY <1>14 DEF Moved

-----------------------------------------------------------------------------
(* The runs and their loops *)

RunStatus == {"running", "completed", "failed", "deleted"}

RunsTyped ==
    /\ runs \in Seq(RunStatus)
    /\ loops \in Seq(Loop)
    /\ Len(loops) = Len(runs)
    /\ active \in {0} \cup RunIds

LEMMA MoveKeepsRuns ==
    ASSUME CTypeOK, JobKnown, NEW r \in RunIds, LoopMoves(r)
    PROVE  RunsTyped' /\ JobKnown' /\ (RunningRowHasLoop => RunningRowHasLoop')
  <1>1. PICK l \in Loop :
            /\ loops' = [loops EXCEPT ![r] = l]
            /\ l.pc = "probe" => l.job # <<>>
            /\ \/ l.pc \notin Ended /\ UNCHANGED <<runs, active>>
               \/ l.pc = "done" /\ EndRun(r)
    BY DEF LoopMoves
  <1>2. loops[r].pc \notin Ended
    BY DEF LoopMoves
  <1>3. /\ loops' \in Seq(Loop) /\ Len(loops') = Len(loops) /\ DOMAIN loops' = RunIds
        /\ loops'[r] = l
        /\ \A q \in RunIds \ {r} : loops'[q] = loops[q]
    <2>1. loops \in Seq(Loop) /\ r \in 1 .. Len(loops) /\ RunIds = 1 .. Len(loops)
      BY LoopTypes DEF CTypeOK
    <2>. QED  BY <1>1, <2>1, ExceptSeq, LoopTypes
  <1>4. CASE l.pc \notin Ended /\ UNCHANGED <<runs, active>>
    <2>1. RunsTyped'
      BY <1>3, <1>4 DEF RunsTyped, CTypeOK, RunIds, RunStatus
    <2>2. JobKnown'
      BY <1>1, <1>3, <1>4 DEF JobKnown, RunIds
    <2>3. RunningRowHasLoop => RunningRowHasLoop'
      BY <1>2, <1>3, <1>4 DEF RunningRowHasLoop, RunIds, Ended
    <2>. QED  BY <2>1, <2>2, <2>3
  <1>5. CASE l.pc = "done" /\ EndRun(r)
    <2>. DEFINE s == IF runs[r] = "deleted" THEN runs[r] ELSE FinalStatus(r)
    <2>1. s \in RunStatus /\ s # "running"
      BY DEF FinalStatus, RunStatus
    <2>2. runs' = [runs EXCEPT ![r] = s]
      BY <1>5 DEF EndRun
    <2>. HIDE DEF s
    <2>3. /\ runs' \in Seq(RunStatus) /\ Len(runs') = Len(runs) /\ DOMAIN runs' = RunIds
          /\ runs'[r] = s
          /\ \A q \in RunIds \ {r} : runs'[q] = runs[q]
      <3>1. runs \in Seq(RunStatus) /\ r \in 1 .. Len(runs) /\ RunIds = 1 .. Len(runs)
        BY LoopTypes DEF CTypeOK, RunStatus
      <3>. QED  BY <2>1, <2>2, <3>1, ExceptSeq, LoopTypes
    <2>4. RunsTyped'
      BY <1>3, <1>5, <2>3 DEF RunsTyped, EndRun, CTypeOK, RunIds
    <2>5. JobKnown'
      BY <1>1, <1>3, <1>5, <2>3 DEF JobKnown, RunIds
    <2>6. RunningRowHasLoop => RunningRowHasLoop'
      BY <1>3, <1>5, <2>1, <2>3 DEF RunningRowHasLoop, RunIds
    <2>. QED  BY <2>4, <2>5, <2>6
  <1>. QED  BY <1>1, <1>4, <1>5

LEMMA StartRunKeepsRuns ==
    ASSUME CTypeOK, JobKnown, StartRun
    PROVE  RunsTyped' /\ JobKnown' /\ (RunningRowHasLoop => RunningRowHasLoop')
  <1>. DEFINE empty == Existing = {}
              s == IF empty THEN "failed" ELSE "running"
              to == IF empty THEN "done" ELSE "messages"
              l == [pc |-> to, stopped |-> FALSE, broke |-> FALSE, todo |-> {},
                    targets |-> {}, slots |-> 0, job |-> <<>>, ctx |-> 0]
              new == Len(runs) + 1
  <1>1. /\ runs' = Append(runs, s)
        /\ loops' = Append(loops, l)
        /\ active' \in {0, new}
    BY DEF StartRun
  <1>2. s \in RunStatus /\ (s = "running" <=> to \notin Ended) /\ to # "probe"
    BY DEF RunStatus, Ended
  <1>3. l \in Loop /\ l.pc = to
    <2>1. to \in Places
      BY DEF Places, Sync
    <2>. HIDE DEF to
    <2>. QED  BY <2>1, NoJob, NoContext, LoopBoundsAssumption DEF Loop
  <1>. HIDE DEF s, l, to
  <1>4. /\ runs' \in Seq(RunStatus) /\ Len(runs') = new /\ RunIds' = RunIds \cup {new}
        /\ runs'[new] = s
        /\ \A q \in RunIds : runs'[q] = runs[q]
    <2>1. runs \in Seq(RunStatus) /\ RunIds = 1 .. Len(runs) /\ Len(runs) \in Nat
      BY LoopTypes DEF CTypeOK, RunStatus
    <2>2. runs' \in Seq(RunStatus) /\ Len(runs') = new
      BY <1>1, <1>2, <2>1, AppendProperties
    <2>3. DOMAIN runs' = 1 .. new
      BY <2>2, LenProperties
    <2>. QED  BY <1>1, <1>2, <2>1, <2>2, <2>3, AppendProperties DEF RunIds
  <1>5. /\ loops' \in Seq(Loop) /\ Len(loops') = new
        /\ loops'[new] = l
        /\ \A q \in RunIds : loops'[q] = loops[q]
    <2>1. loops \in Seq(Loop) /\ RunIds = 1 .. Len(loops) /\ Len(loops) = Len(runs)
      BY LoopTypes DEF CTypeOK
    <2>. QED  BY <1>1, <1>3, <2>1, AppendProperties
  <1>6. RunsTyped'
    BY <1>1, <1>4, <1>5 DEF RunsTyped
  <1>7. JobKnown'
    BY <1>2, <1>3, <1>4, <1>5 DEF JobKnown
  <1>8. RunningRowHasLoop => RunningRowHasLoop'
    BY <1>2, <1>3, <1>4, <1>5 DEF RunningRowHasLoop, Ended
  <1>. QED  BY <1>6, <1>7, <1>8

LEMMA RunStopKeepsRuns ==
    ASSUME CTypeOK, JobKnown, RunStop
    PROVE  RunsTyped' /\ JobKnown' /\ (RunningRowHasLoop => RunningRowHasLoop')
  <1>1. /\ loops' = [r \in RunIds |->
                IF r = active THEN [loops[r] EXCEPT !.stopped = TRUE] ELSE loops[r]]
        /\ active' = 0 /\ UNCHANGED runs
    BY DEF RunStop
  <1>2. \A r \in RunIds : /\ loops'[r] \in Loop
                          /\ loops'[r].pc = loops[r].pc
                          /\ loops'[r].job = loops[r].job
    <2>. SUFFICES ASSUME NEW r \in RunIds
                  PROVE  /\ loops'[r] \in Loop
                         /\ loops'[r].pc = loops[r].pc
                         /\ loops'[r].job = loops[r].job
      OBVIOUS
    <2>1. loops[r] \in Loop
      BY LoopTypes
    <2>2. /\ [loops[r] EXCEPT !.stopped = TRUE] \in Loop
          /\ [loops[r] EXCEPT !.stopped = TRUE].pc = loops[r].pc
          /\ [loops[r] EXCEPT !.stopped = TRUE].job = loops[r].job
      BY <2>1 DEF Loop
    <2>. QED  BY <1>1, <2>1, <2>2
  <1>3. loops' \in Seq(Loop) /\ Len(loops') = Len(runs)
    <2>1. loops' \in [1 .. Len(runs) -> Loop] /\ Len(runs) \in Nat
      BY <1>1, <1>2, LoopTypes
    <2>. QED  BY <2>1, FunctionIsSeq
  <1>. QED  BY <1>1, <1>2, <1>3 DEF RunsTyped, RunStatus, CTypeOK, JobKnown, RunningRowHasLoop, RunIds

-----------------------------------------------------------------------------
(* The mailbox and the workers *)

LEMMA PostTyped ==
    ASSUME CInv, NEW type \in {"worker_done", "escalation", "decision_gate"},
           NEW c \in CtxIds, NEW d \in {0, c}, Post(type, ctxs[c].task, d)
    PROVE  inbox' \in Seq(Message)
  <1>. DEFINE m == [type |-> type, task |-> ctxs[c].task, ctx |-> d]
  <1>1. ctxs[c].task \in Tasks /\ d \in 0 .. MaxDispatches
    BY RowTypes, BoundsAssumption DEF CInv
  <1>2. m \in Message
    BY <1>1 DEF Message
  <1>3. inbox' = Append(inbox, m) /\ inbox \in Seq(Message)
    BY DEF Post, CInv, CTypeOK
  <1>. HIDE DEF m
  <1>. QED  BY <1>2, <1>3, AppendProperties

(* The steps of workers, people and other callers leave the runs alone,     *)
(* but for resets and restarts.                                             *)
LEMMA OtherKeepsRuns ==
    ASSUME CInv, UNCHANGED coordination
    PROVE  RunsTyped' /\ JobKnown' /\ (RunningRowHasLoop => RunningRowHasLoop')
  BY DEF coordination, CInv, CTypeOK, RunsTyped, RunStatus, JobKnown, RunningRowHasLoop, RunIds

LEMMA WorkerStep ==
    ASSUME CInv, NEW c \in working,
           WorkerReports(c) \/ WorkerEscalates(c) \/ WorkerAsksForGate(c)
    PROVE  /\ UNCHANGED coordination
           /\ inbox' \in Seq(Message)
           /\ working' \subseteq CtxIds
  <1>1. c \in CtxIds /\ working \subseteq CtxIds
    BY DEF CInv, CTypeOK
  <1>2. PICK type \in {"worker_done", "escalation", "decision_gate"} :
            Post(type, ctxs[c].task, c)
    BY DEF WorkerReports, WorkerEscalates, WorkerAsksForGate
  <1>3. inbox' \in Seq(Message)
    BY <1>1, <1>2, PostTyped
  <1>. QED  BY <1>1, <1>3 DEF WorkerReports, WorkerEscalates, WorkerAsksForGate

LEMMA ExitStep ==
    ASSUME CInv, NEW p \in Panes, WorkerExits(p)
    PROVE  /\ UNCHANGED coordination
           /\ inbox' \in Seq(Message)
           /\ working' \subseteq CtxIds
  <1>. DEFINE mine == {c \in CtxIds : Occupies(c, <<p, gen[p]>>, NoPane)}
  <1>1. /\ UNCHANGED coordination
        /\ working' \subseteq working
        /\ \/ UNCHANGED inbox
           \/ \E c \in mine : Post("escalation", ctxs[c].task, 0)
    BY DEF WorkerExits
  <1>2. ASSUME NEW c \in mine, Post("escalation", ctxs[c].task, 0)
        PROVE  inbox' \in Seq(Message)
    BY <1>2, PostTyped
  <1>. QED  BY <1>1, <1>2 DEF CInv, CTypeOK

LEMMA CNextKeepsInv ==
    ASSUME CInv, CNext
    PROVE  CInv' /\ (RunningRowHasLoop => RunningRowHasLoop')
  <1>1. TypeOK' /\ Len(ctxs') <= MaxDispatches /\ CtxIds \subseteq CtxIds'
    BY IsTableStep, RowsStay DEF OpenNext, CInv
  <1>. DEFINE Runs == RunsTyped' /\ JobKnown' /\ (RunningRowHasLoop => RunningRowHasLoop')
              Rest == inbox' \in Seq(Message) /\ working' \subseteq CtxIds
  <1>4. ASSUME NEW r \in RunIds, LoopStep(r)  PROVE Runs /\ Rest
    BY <1>4, LoopStepMoves, MoveKeepsRuns DEF CInv
  <1>5. ASSUME NEW c \in working, WorkerReports(c) \/ WorkerEscalates(c) \/ WorkerAsksForGate(c)
        PROVE  Runs /\ Rest
    BY <1>5, WorkerStep, OtherKeepsRuns
  <1>6. ASSUME NEW p \in Panes, WorkerExits(p)  PROVE Runs /\ Rest
    BY <1>6, ExitStep, OtherKeepsRuns
  <1>7. ASSUME UNCHANGED <<coordination, inbox, working>>  PROVE Runs /\ Rest
    BY <1>7, OtherKeepsRuns DEF CInv, CTypeOK
  <1>8. ASSUME NEW g \in DOMAIN gates, AnswerGate(g)  PROVE Runs /\ Rest
    BY <1>7, <1>8 DEF AnswerGate
  <1>9. ASSUME NEW t \in Tasks, NEW ds \in SUBSET Tasks, AddTask(t, ds)  PROVE Runs /\ Rest
    BY <1>7, <1>9 DEF AddTask
  <1>10. ASSUME StartRun \/ RunStop  PROVE Runs /\ Rest
    <2>1. Runs
      BY <1>10, StartRunKeepsRuns, RunStopKeepsRuns DEF CInv
    <2>2. UNCHANGED <<inbox, working>>
      BY <1>10 DEF StartRun, RunStop
    <2>3. Rest
      BY <2>2 DEF CInv, CTypeOK
    <2>. QED  BY <2>1, <2>3
  <1>. HIDE DEF Runs, Rest
  <1>11. Runs /\ Rest
    BY <1>4, <1>5, <1>6, <1>8, <1>9, <1>10 DEF CNext
  <1>. QED  BY <1>1, <1>11 DEF Runs, Rest, RunsTyped, RunStatus, CInv, CTypeOK

(* The same for the callers beside the coordinator.  A reset takes the rows *)
(* of runs away under their loops, and a restart the loops from their rows. *)
LEMMA OpenNextKeepsInv ==
    ASSUME CInv, OpenNext
    PROVE  CInv'
  <1>1. TypeOK' /\ Len(ctxs') <= MaxDispatches /\ CtxIds \subseteq CtxIds'
    BY IsTableStep, RowsStay DEF CInv
  <1>. DEFINE Typed == /\ RunsTyped' /\ JobKnown'
                       /\ inbox' \in Seq(Message)
                       /\ working' \subseteq CtxIds
  <1>2. ASSUME UNCHANGED coordination, UNCHANGED inbox, working' \subseteq CtxIds  PROVE Typed
    BY <1>2, OtherKeepsRuns DEF CInv, CTypeOK
  <1>3. ASSUME NEW t \in Tasks, NEW h \in Handles, NEW inject \in BOOLEAN,
               RpcDispatch(t, h, inject)
        PROVE  Typed
    BY <1>2, <1>3 DEF RpcDispatch, CInv, CTypeOK
  <1>4. ASSUME NEW c \in sending, RpcPromptSettles(c)  PROVE Typed
    BY <1>2, <1>4 DEF RpcPromptSettles, CInv, CTypeOK, TypeOK
  <1>5. ASSUME NEW t \in Tasks, NEW s \in OperatorStatuses, RpcTaskUpdate(t, s)  PROVE Typed
    BY <1>2, <1>5 DEF RpcTaskUpdate, CInv, CTypeOK
  <1>6. ASSUME NEW t \in Tasks, RpcGateCreate(t)  PROVE Typed
    BY <1>2, <1>6 DEF RpcGateCreate, CInv, CTypeOK
  <1>7. ASSUME NEW p \in Panes, Reload(p)  PROVE Typed
    BY <1>2, <1>7 DEF Reload, CInv, CTypeOK
  <1>8. ASSUME NEW all \in BOOLEAN, RpcReset(all)  PROVE Typed
    <2>1. /\ runs' = [r \in RunIds |-> "deleted"]
          /\ inbox' \in {inbox, <<>>}
          /\ UNCHANGED <<loops, active, working>>
      BY <1>8 DEF RpcReset
    <2>2. runs' \in Seq(RunStatus) /\ Len(runs') = Len(runs) /\ DOMAIN runs' = RunIds
      <3>1. runs' \in [1 .. Len(runs) -> RunStatus] /\ Len(runs) \in Nat
        BY <2>1, LoopTypes DEF RunStatus, CInv
      <3>. QED  BY <3>1, FunctionIsSeq, LoopTypes DEF CInv
    <2>3. <<>> \in Seq(Message)
      BY EmptySeq
    <2>. QED  BY <2>1, <2>2, <2>3 DEF RunsTyped, JobKnown, CInv, CTypeOK, RunIds
  <1>9. ASSUME NEW survivors \in SUBSET alive, Restart(survivors)  PROVE Typed
    <2>1. /\ loops' = [r \in RunIds |->
                IF loops[r].pc = "done" THEN loops[r] ELSE Between(r, "dead")]
          /\ active' = 0
          /\ working' \subseteq working
          /\ UNCHANGED <<runs, inbox>>
      BY <1>9 DEF Restart
    <2>2. \A r \in RunIds : loops'[r] \in Loop /\ loops'[r].pc # "probe"
      <3>. SUFFICES ASSUME NEW r \in RunIds
                    PROVE  loops'[r] \in Loop /\ loops'[r].pc # "probe"
        OBVIOUS
      <3>1. Between(r, "dead") \in Loop /\ Between(r, "dead").pc = "dead"
        BY BetweenType DEF Places, CInv
      <3>2. loops[r] \in Loop
        BY LoopTypes DEF CInv
      <3>. QED  BY <2>1, <3>1, <3>2
    <2>3. loops' \in Seq(Loop) /\ Len(loops') = Len(runs)
      <3>1. loops' \in [1 .. Len(runs) -> Loop] /\ Len(runs) \in Nat
        BY <2>1, <2>2, LoopTypes DEF CInv
      <3>. QED  BY <3>1, FunctionIsSeq
    <2>. QED  BY <2>1, <2>2, <2>3 DEF RunsTyped, RunStatus, JobKnown, CInv, CTypeOK, RunIds
  <1>. HIDE DEF Typed
  <1>10. CASE CNext
    BY <1>10, CNextKeepsInv
  <1>11. CASE ~CNext
    <2>1. Typed
      BY <1>3, <1>4, <1>5, <1>6, <1>7, <1>8, <1>9, <1>11 DEF OpenNext
    <2>. QED  BY <1>1, <2>1 DEF Typed, RunsTyped, RunStatus, CInv, CTypeOK
  <1>. QED  BY <1>10, <1>11

-----------------------------------------------------------------------------
(* The system implements the tables *)

LEMMA InitCInv == CInit => CInv
  <1>. SUFFICES ASSUME CInit  PROVE CInv
    OBVIOUS
  <1>1. TypeOK /\ Len(ctxs) <= MaxDispatches
    <2>1. ctxs = <<>> /\ Init
      BY DEF CInit, Init
    <2>. QED  BY <2>1, InitInv, BoundsAssumption DEF IInv
  <1>2. Len(runs) = 0 /\ Len(loops) = 0 /\ RunIds = {}
    BY DEF CInit, RunIds
  <1>. QED  BY <1>1, <1>2 DEF CInit, CInv, CTypeOK, JobKnown

LEMMA StutterKeepsInv ==
    ASSUME CInv, UNCHANGED cvars
    PROVE  CInv' /\ (RunningRowHasLoop => RunningRowHasLoop')
  BY DEF cvars, vars, CInv, TypeOK, CTypeOK, JobKnown, RunningRowHasLoop, RunIds, CtxIds

LEMMA OpenInv == OpenSpec => []CInv
  <1>1. CInv /\ [OpenNext]_cvars => CInv'
    BY OpenNextKeepsInv, StutterKeepsInv
  <1>. QED  BY <1>1, InitCInv, PTL DEF OpenSpec

(* Whatever coordinators, workers, people and RPC callers do, and whenever   *)
(* the app restarts, the tables change only by their own operations.         *)
THEOREM ImplementsTables == OpenSpec => Spec
  <1>1. CInit => Init
    BY DEF CInit
  <1>2. CInv /\ [OpenNext]_cvars => [Next]_vars
    BY IsTableStep DEF cvars
  <1>. QED  BY <1>1, <1>2, OpenInv, PTL DEF OpenSpec, Spec

(* The coordinator's runs, loops and mailbox are typed in every reachable    *)
(* state, resets and restarts included.                                      *)
THEOREM OpenTypes == OpenSpec => []CTypeOK
  <1>1. CInv => CTypeOK
    BY DEF CInv
  <1>. QED  BY <1>1, OpenInv, PTL

(* The dispatch lock holds in the whole system: a coordinator's pick, made   *)
(* before its probe and its prompt, never puts two dispatches in a terminal. *)
THEOREM OpenLock == OpenSpec => []DispatchLock
  BY ImplementsTables, LockHolds, PTL

(* In the whole system a task shown as dispatched has a row in progress, as  *)
(* long as no operator writes that status by hand.                           *)
THEOREM OpenWorkerExists ==
    ASSUME "dispatched" \notin OperatorStatuses
    PROVE  OpenSpec => []DispatchedTaskHasWorker
  BY ImplementsTables, WorkerExists, PTL

(* The whole system implements the lease of TerminalLease: across loops,     *)
(* hand-made dispatches, reloads, resets and restarts of the application a   *)
(* terminal is leased once at a time and no lease is granted twice.          *)
THEOREM OpenLease == OpenSpec => LeaseSpec
  BY ImplementsTables, ImplementsLease, PTL

(* A worker whose report is accepted is free at once, whichever coordinators *)
(* and callers are at work: lifecycle-reconciliation.ts and db.ts complete   *)
(* the row that was reported on.                                             *)
THEOREM OpenReports == OpenSpec => AcceptedReportFreesWorker
  BY ImplementsTables, AcceptedReportCompletesItsRow, PTL

(* In the whole system promoteReadyTasks misses nobody: the step that        *)
(* completes the last dependency of a waiting task releases it.              *)
THEOREM OpenPromotion == OpenSpec => LastDependencyReleases
  BY ImplementsTables, PromotionMissesNobody, PTL

(* What a reset deleted stays deleted: a probe, a prompt or a report that    *)
(* was under way when the tables were cleared brings no row back.            *)
THEOREM ResetsAreFinal == OpenSpec => ResetIsFinal
  <1>1. ASSUME CInv, [OpenNext]_cvars  PROVE DeletedStays
    <2>1. [Next]_vars
      BY <1>1, IsTableStep DEF cvars
    <2>. QED  BY <1>1, <2>1, StepEffect DEF CInv, vars, DeletedStays
  <1>2. CInv /\ [OpenNext]_cvars =>
            [/\ \A t \in Tasks : tstatus[t] = "deleted" => tstatus'[t] = "deleted"
             /\ \A c \in CtxIds : ctxs[c].status = "deleted" => ctxs'[c].status = "deleted"]_cvars
    BY <1>1 DEF DeletedStays
  <1>. QED  BY <1>2, OpenInv, PTL DEF OpenSpec, ResetIsFinal

-----------------------------------------------------------------------------
(* The coordinator left to itself: no reset, no restart, no other caller *)

LEMMA ClosedInv == CSpec => [](CInv /\ RunningRowHasLoop)
  <1>1. CInit => CInv /\ RunningRowHasLoop
    BY InitCInv DEF CInit, RunningRowHasLoop, RunIds
  <1>2. CInv /\ RunningRowHasLoop /\ [CNext]_cvars => CInv' /\ RunningRowHasLoop'
    BY CNextKeepsInv, StutterKeepsInv
  <1>. QED  BY <1>1, <1>2, PTL DEF CSpec

(* A run recorded as running has a loop that will end it: runLoop's last     *)
(* step writes the row's final status, whichever way the loop ends.          *)
THEOREM RunsHaveLoops == CSpec => []RunningRowHasLoop
  BY ClosedInv, PTL

-----------------------------------------------------------------------------
(* Which loop runStop reaches, and how two loops may live at once            *)

NoReset == \A all \in BOOLEAN : ~RpcReset(all)

(* A loop that goes on and whose row is in the table. *)
OnRecord(r) == loops[r].pc \notin Ended /\ runs[r] # "deleted"

RecordRuns == \A r \in RunIds : OnRecord(r) => runs[r] = "running"

OneRunning == \A q, r \in RunIds : runs[q] = "running" /\ runs[r] = "running" => q = r

Reached == \A r \in RunIds : OnRecord(r) => active = r \/ loops[r].stopped

RInv == CInv /\ RecordRuns /\ OneRunning /\ Reached

(* No row starts to run; a loop that stays on record keeps its row running   *)
(* and stays within reach; and only a reset deletes.                         *)
RunsFollow ==
    /\ RunIds' = RunIds
    /\ \A r \in RunIds :
        /\ runs'[r] = "running" => runs[r] = "running"
        /\ OnRecord(r)' =>
            /\ OnRecord(r) /\ (runs[r] = "running" => runs'[r] = "running")
            /\ active = r \/ loops[r].stopped => active' = r \/ loops'[r].stopped
        /\ NoReset /\ runs'[r] = "deleted" => runs[r] = "deleted"

LEMMA FollowKeeps ==
    ASSUME RecordRuns, OneRunning, Reached, RunsFollow
    PROVE  RecordRuns' /\ OneRunning' /\ Reached'
  BY DEF RecordRuns, OneRunning, Reached, RunsFollow

(* No place of the loop touches the stop flag. *)
LEMMA StepKeepsFlag ==
    ASSUME CInv, NEW r \in RunIds, LoopStep(r)
    PROVE  loops'[r].stopped = loops[r].stopped
  <1>. DEFINE Kept == loops'[r].stopped = loops[r].stopped
  <1>a. r \in DOMAIN loops /\ "stopped" \in DOMAIN loops[r]
    BY LoopTypes, LoopFields DEF CInv, Loop
  <1>. USE <1>a
  <1>0. ASSUME NEW to \in Places, loops' = [loops EXCEPT ![r] = Between(r, to)]  PROVE Kept
    BY <1>0 DEF Between
  <1>1. ASSUME ProcessMessage(r)  PROVE Kept
    BY <1>1 DEF ProcessMessage
  <1>2. ASSUME NEW g \in DOMAIN gates, ProcessDecisionGate(r, g)  PROVE Kept
    BY <1>2 DEF ProcessDecisionGate, coordination
  <1>3. ASSUME TakeSnapshot(r)  PROVE Kept
    BY <1>3 DEF TakeSnapshot
  <1>4. ASSUME NEW targets \in {LiveHandles \ BusyHandles, {}}, ListTerminals(r, targets)
        PROVE  Kept
    BY <1>4 DEF ListTerminals
  <1>5. ASSUME CreateTerminal(r)  PROVE Kept
    BY <1>5 DEF CreateTerminal
  <1>6. ASSUME CreateTerminalFails(r) \/ NothingToPick(r)  PROVE Kept
    BY <1>6 DEF CreateTerminalFails, NothingToPick, Goto
  <1>7. ASSUME PickTask(r)  PROVE Kept
    BY <1>7 DEF PickTask
  <1>8. ASSUME SkipStaleBase(r) \/ DispatchRefused(r) \/ LoopPromptSent(r)  PROVE Kept
    BY <1>8 DEF SkipStaleBase, DispatchRefused, LoopPromptSent, JobDone
  <1>9. ASSUME OpenDispatch(r)  PROVE Kept
    BY <1>9 DEF OpenDispatch
  <1>10. ASSUME LoopPromptFailed(r)  PROVE Kept
    <2>. DEFINE after == JobDone(r)
    <2>1. PICK b : loops' = [after EXCEPT ![r].broke = b]
      BY <1>10 DEF LoopPromptFailed
    <2>2. /\ r \in DOMAIN after /\ "stopped" \in DOMAIN after[r]
          /\ after[r].stopped = loops[r].stopped
      BY DEF JobDone
    <2>. HIDE DEF after
    <2>. QED  BY <2>1, <2>2
  <1>11. ASSUME CheckConvergence(r)  PROVE Kept
    BY <1>0, <1>11 DEF CheckConvergence, EndRun, Places, Sync, Awaits
  <1>12. ASSUME Wake(r)  PROVE Kept
    BY <1>0, <1>12 DEF Wake, EndRun, Goto, Places
  <1>. HIDE DEF Kept
  <1>13. Kept
    BY <1>1, <1>2, <1>3, <1>4, <1>5, <1>6, <1>7, <1>8, <1>9, <1>10, <1>11, <1>12, Zenon
       DEF LoopStep
  <1>. QED  BY <1>13 DEF Kept

LEMMA MoveFollows ==
    ASSUME CInv, NEW r \in RunIds, LoopStep(r)
    PROVE  RunsFollow
  <1>. USE DEF CInv
  <1>0. LoopMoves(r) /\ loops'[r].stopped = loops[r].stopped
    BY LoopStepMoves, StepKeepsFlag
  <1>1. PICK l \in Loop :
            /\ loops' = [loops EXCEPT ![r] = l]
            /\ \/ l.pc \notin Ended /\ UNCHANGED <<runs, active>>
               \/ l.pc = "done" /\ EndRun(r)
    BY <1>0 DEF LoopMoves
  <1>2. loops[r].pc \notin Ended /\ DOMAIN loops = RunIds /\ DOMAIN runs = RunIds
    BY <1>0, LoopTypes DEF LoopMoves, RunIds
  <1>3. loops'[r] = l /\ \A q \in RunIds \ {r} : loops'[q] = loops[q]
    BY <1>1, <1>2
  <1>4. CASE l.pc \notin Ended /\ UNCHANGED <<runs, active>>
    BY <1>0, <1>2, <1>3, <1>4 DEF RunsFollow, OnRecord, RunIds
  <1>5. CASE l.pc = "done" /\ EndRun(r)
    <2>. DEFINE s == IF runs[r] = "deleted" THEN runs[r] ELSE FinalStatus(r)
    <2>1. s # "running" /\ (s = "deleted" => runs[r] = "deleted")
      BY DEF FinalStatus
    <2>2. runs' = [runs EXCEPT ![r] = s] /\ active' = IF active = r THEN 0 ELSE active
      BY <1>5 DEF EndRun
    <2>. HIDE DEF s
    <2>3. /\ runs'[r] = s /\ RunIds' = RunIds
          /\ \A q \in RunIds \ {r} : runs'[q] = runs[q]
      BY <1>2, <2>2 DEF RunIds
    <2>4. \A q \in RunIds \ {r} : active = q => active' = q
      BY <2>2
    <2>. QED  BY <1>3, <1>5, <2>1, <2>3, <2>4 DEF RunsFollow, OnRecord, Ended
  <1>. QED  BY <1>1, <1>4, <1>5

(* A run is started when no row is running, so no loop is on record.         *)
LEMMA StartKeepsOne ==
    ASSUME RInv, StartRun
    PROVE  /\ RecordRuns' /\ OneRunning' /\ Reached'
           /\ (\A r \in RunIds : runs[r] # "deleted") => \A r \in RunIds' : runs'[r] # "deleted"
  <1>. USE DEF RInv, CInv
  <1>. DEFINE s == IF Existing = {} THEN "failed" ELSE "running"
              to == IF Existing = {} THEN "done" ELSE "messages"
              l == [pc |-> to, stopped |-> FALSE, broke |-> FALSE, todo |-> {},
                    targets |-> {}, slots |-> 0, job |-> <<>>, ctx |-> 0]
              new == Len(runs) + 1
  <1>1. runs' = Append(runs, s) /\ loops' = Append(loops, l) /\ Running = {}
    BY DEF StartRun
  <1>2. /\ (to \notin Ended => s = "running" /\ active' = new)
        /\ l.pc = to /\ s # "deleted"
    BY DEF Ended, StartRun
  <1>. HIDE DEF s, to, l
  <1>3. /\ RunIds' = RunIds \cup {new} /\ runs'[new] = s /\ loops'[new] = l
        /\ \A q \in RunIds : runs'[q] = runs[q] /\ loops'[q] = loops[q]
    <2>1. /\ RunIds = 1 .. Len(runs) /\ Len(runs) \in Nat /\ Len(loops) = Len(runs)
          /\ runs \in Seq({"running", "completed", "failed", "deleted"}) /\ loops \in Seq(Loop)
      BY LoopTypes DEF CTypeOK
    <2>. QED  BY <1>1, <2>1 DEF RunIds
  <1>4. \A q \in RunIds : runs[q] # "running" /\ ~OnRecord(q)
    BY <1>1 DEF Running, RecordRuns
  <1>. QED  BY <1>2, <1>3, <1>4 DEF RecordRuns, OneRunning, Reached, OnRecord

LEMMA OpenFollows ==
    ASSUME RInv, OpenNext
    PROVE  StartRun \/ RunsFollow
  <1>. USE DEF RInv
  <1>1. ASSUME NEW r \in RunIds, LoopStep(r)  PROVE RunsFollow
    BY <1>1, MoveFollows
  <1>2. ASSUME RunStop  PROVE RunsFollow
    <2>1. /\ UNCHANGED runs
          /\ loops' = [r \in RunIds |->
                IF r = active THEN [loops[r] EXCEPT !.stopped = TRUE] ELSE loops[r]]
      BY <1>2 DEF RunStop
    <2>2. \A r \in RunIds :
            /\ loops'[r].pc = loops[r].pc
            /\ active = r \/ loops[r].stopped => loops'[r].stopped
      BY <2>1, LoopTypes DEF CInv, Loop
    <2>. QED  BY <2>1, <2>2 DEF RunsFollow, OnRecord, RunIds
  <1>3. ASSUME NEW survivors \in SUBSET alive, Restart(survivors)  PROVE RunsFollow
    <2>1. /\ UNCHANGED runs
          /\ loops' = [r \in RunIds |->
                IF loops[r].pc = "done" THEN loops[r] ELSE Between(r, "dead")]
      BY <1>3 DEF Restart
    <2>2. \A r \in RunIds : loops'[r].pc \in Ended
      BY <2>1 DEF Between, Ended
    <2>. QED  BY <2>1, <2>2 DEF RunsFollow, OnRecord, RunIds
  <1>4. ASSUME NEW all \in BOOLEAN, RpcReset(all)  PROVE RunsFollow
    <2>1. runs' = [r \in RunIds |-> "deleted"] /\ UNCHANGED loops
      BY <1>4 DEF RpcReset
    <2>. QED  BY <1>4, <2>1 DEF RunsFollow, OnRecord, NoReset, RunIds
  <1>5. ASSUME UNCHANGED coordination  PROVE RunsFollow
    BY <1>5 DEF coordination, RunsFollow, OnRecord, RunIds
  <1>6. CASE CNext
    <2>1. ASSUME NEW c \in working,
                 WorkerReports(c) \/ WorkerEscalates(c) \/ WorkerAsksForGate(c)
          PROVE  UNCHANGED coordination
      BY <2>1 DEF WorkerReports, WorkerEscalates, WorkerAsksForGate
    <2>2. ASSUME NEW p \in Panes, WorkerExits(p)  PROVE UNCHANGED coordination
      BY <2>2 DEF WorkerExits
    <2>3. ASSUME NEW g \in DOMAIN gates, AnswerGate(g)  PROVE UNCHANGED coordination
      BY <2>3 DEF AnswerGate
    <2>4. ASSUME NEW t \in Tasks, NEW ds \in SUBSET Tasks, AddTask(t, ds)
          PROVE  UNCHANGED coordination
      BY <2>4 DEF AddTask
    <2>. QED
      BY <1>1, <1>2, <1>5, <1>6, <2>1, <2>2, <2>3, <2>4, Zenon DEF CNext
  <1>7. CASE ~CNext
    BY <1>3, <1>4, <1>5, <1>7 DEF OpenNext, RpcDispatch, RpcPromptSettles, RpcTaskUpdate,
       RpcGateCreate, Reload
  <1>. QED  BY <1>6, <1>7

LEMMA InitRInv == CInit => RInv /\ \A r \in RunIds : runs[r] # "deleted"
  BY InitCInv DEF CInit, RInv, RecordRuns, OneRunning, Reached, RunIds

LEMMA OpenKeepsRInv ==
    ASSUME RInv, [OpenNext]_cvars
    PROVE  RInv'
  <1>1. CASE OpenNext
    BY <1>1, OpenFollows, FollowKeeps, StartKeepsOne, OpenNextKeepsInv DEF RInv
  <1>2. CASE UNCHANGED cvars
    BY <1>2, StutterKeepsInv DEF RInv, RecordRuns, OneRunning, Reached, OnRecord, cvars, RunIds
  <1>. QED  BY <1>1, <1>2

(* With resets under running loops, second runs and restarts, at most one    *)
(* loop has its row in the table, and runStop reaches that one or has told   *)
(* it to stop: no other loop overwrites or clears its reference.             *)
THEOREM OpenRunStop == OpenSpec => []RunStopReachesRun
  <1>1. RInv => RunStopReachesRun
    BY DEF RInv, RecordRuns, OneRunning, Reached, OnRecord, Ended, RunStopReachesRun
  <1>. QED  BY <1>1, InitRInv, OpenKeepsRInv, PTL DEF OpenSpec

(* orchestration-gates.ts says that only one coordinator can run at a time.  *)
(* It is so until somebody resets the tables: without orchestration.reset,   *)
(* the active-run check keeps loops apart through stops, hand-made calls and *)
(* restarts of the application.  (With it, see the configuration             *)
(* MCCoordinatorTwoLoops.)                                                   *)
THEOREM OneLoopUnlessReset ==
    CInit /\ [][OpenNext /\ NoReset]_cvars => []OnlyOneLoop
  <1>. DEFINE Inv == RInv /\ \A r \in RunIds : runs[r] # "deleted"
  <1>1. Inv /\ [OpenNext /\ NoReset]_cvars => Inv'
    <2>1. ASSUME Inv, OpenNext, NoReset  PROVE Inv'
      BY <2>1, OpenKeepsRInv, OpenFollows, StartKeepsOne DEF RunsFollow
    <2>2. ASSUME Inv, UNCHANGED cvars  PROVE Inv'
      BY <2>2, OpenKeepsRInv DEF cvars, RunIds
    <2>. QED  BY <2>1, <2>2
  <1>2. Inv => OnlyOneLoop
    <2>. SUFFICES ASSUME Inv  PROVE OnlyOneLoop
      OBVIOUS
    <2>. DEFINE live == {r \in RunIds : loops[r].pc \notin {"done", "dead"}}
    <2>1. \A q, r \in live : q = r
      BY DEF RInv, RecordRuns, OneRunning, OnRecord, Ended
    <2>2. CASE live = {}
      BY <2>2, FS_EmptySet DEF OnlyOneLoop
    <2>3. ASSUME NEW r \in live  PROVE OnlyOneLoop
      <3>1. live = {r}
        BY <2>1
      <3>. HIDE DEF live
      <3>2. Cardinality(live) = 1
        BY <3>1, FS_Singleton
      <3>. QED  BY <3>2 DEF live, OnlyOneLoop
    <2>. QED  BY <2>2, <2>3
  <1>3. CInit => Inv
    BY InitRInv
  <1>. QED  BY <1>1, <1>2, <1>3, PTL

=============================================================================
