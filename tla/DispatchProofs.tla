--------------------------- MODULE DispatchProofs ---------------------------
(***************************************************************************)
(* Theorems of module Dispatch, for any tasks, panes and bounds.           *)
(*                                                                         *)
(* Every operation but orchestration.dispatch is a NoNewDispatch step: it  *)
(* may retire rows, never revives one, and a task that is `dispatched'     *)
(* after it was so before, with its rows untouched.  That one fact about   *)
(* fourteen actions carries the lock, the worker of a dispatched task and  *)
(* the refinement of TerminalLease; only DispatchTask needs its own case.  *)
(***************************************************************************)
EXTENDS Dispatch, SequenceTheorems, TLAPS

(* The rows keep their identity and no inactive row becomes active. *)
RetiresOnly ==
    /\ DOMAIN ctxs' = DOMAIN ctxs
    /\ \A c \in CtxIds :
        /\ ctxs'[c].task = ctxs[c].task
        /\ ctxs'[c].handle = ctxs[c].handle
        /\ ctxs'[c].pane = ctxs[c].pane
        /\ ctxs'[c].status = "dispatched" => ctxs[c].status = "dispatched"

(* What is asked of the person at taskUpdate, and only where it is needed. *)
NoHandMadeDispatch == "dispatched" \notin OperatorStatuses

NoNewDispatch ==
    /\ RetiresOnly
    /\ NoHandMadeDispatch =>
        \A t \in Tasks : tstatus'[t] = "dispatched" =>
            /\ tstatus[t] = "dispatched"
            /\ \A c \in CtxIds : ctxs[c].task = t => ctxs'[c] = ctxs[c]

-----------------------------------------------------------------------------
(* Type correctness *)

(* A function on 1..n is a sequence. *)
LEMMA FunctionIsSeq ==
    ASSUME NEW S, NEW n \in Nat, NEW f \in [1 .. n -> S]
    PROVE  f \in Seq(S) /\ Len(f) = n /\ DOMAIN f = 1 .. n
  BY SeqDef

(* What TypeOK says of the dispatch table, row by row. *)
LEMMA RowTypes ==
    ASSUME TypeOK
    PROVE  /\ Len(ctxs) \in Nat
           /\ CtxIds = 1 .. Len(ctxs)
           /\ ctxs \in [1 .. Len(ctxs) -> DispatchRow]
           /\ \A c \in CtxIds :
                /\ ctxs[c] \in DispatchRow
                /\ ctxs[c].task \in Tasks
                /\ ctxs[c].handle \in Handles
                /\ ctxs[c].pane \in Panes \cup {NoPane}
                /\ ctxs[c].status \in CtxStatus
                /\ ctxs[c].failures \in 0 .. FailureLimit
  <1>1. ctxs \in Seq(DispatchRow)
    BY DEF TypeOK
  <1>2. /\ Len(ctxs) \in Nat
        /\ ctxs \in [1 .. Len(ctxs) -> DispatchRow]
        /\ DOMAIN ctxs = 1 .. Len(ctxs)
    BY <1>1, LenProperties
  <1>3. \A c \in CtxIds : ctxs[c] \in DispatchRow
    BY <1>2 DEF CtxIds
  <1>. QED  BY <1>2, <1>3 DEF CtxIds, DispatchRow

LEMMA GateTypes ==
    ASSUME TypeOK
    PROVE  /\ Len(gates) \in Nat
           /\ DOMAIN gates = 1 .. Len(gates)
           /\ \A g \in DOMAIN gates : gates[g] \in GateRow /\ gates[g].task \in Tasks
  <1>1. gates \in Seq(GateRow)
    BY DEF TypeOK
  <1>2. /\ Len(gates) \in Nat
        /\ gates \in [1 .. Len(gates) -> GateRow]
        /\ DOMAIN gates = 1 .. Len(gates)
    BY <1>1, LenProperties
  <1>. QED  BY <1>2 DEF GateRow

(* Completing the newest active dispatch of a task keeps the rows typed,   *)
(* retires at most rows of that task, and leaves the others alone.         *)
LEMMA CompleteActiveRows ==
    ASSUME TypeOK, NEW t \in Tasks, ctxs' = CompleteActiveDispatchForTask(t)
    PROVE  /\ ctxs' \in Seq(DispatchRow)
           /\ RetiresOnly
           /\ \A c \in CtxIds : ctxs[c].task # t => ctxs'[c] = ctxs[c]
  <1>1. ctxs' = [c \in CtxIds |->
                    IF IsLast(c, ActiveFor(t)) THEN [ctxs[c] EXCEPT !.status = "completed"]
                    ELSE ctxs[c]]
    BY DEF CompleteActiveDispatchForTask
  <1>2. \A c \in CtxIds : IsLast(c, ActiveFor(t)) => ctxs[c].task = t
    BY DEF IsLast, ActiveFor, RowsOf
  <1>3. ctxs' \in [1 .. Len(ctxs) -> DispatchRow]
    BY <1>1, RowTypes DEF DispatchRow, CtxStatus
  <1>4. \A c \in CtxIds :
            \/ ctxs'[c] = ctxs[c]
            \/ ctxs[c].task = t /\ ctxs'[c] = [ctxs[c] EXCEPT !.status = "completed"]
    BY <1>1, <1>2
  <1>5. \A c \in CtxIds :
            ctxs[c].task = t /\ ctxs'[c] = [ctxs[c] EXCEPT !.status = "completed"]
            => /\ ctxs'[c].task = ctxs[c].task
               /\ ctxs'[c].handle = ctxs[c].handle
               /\ ctxs'[c].pane = ctxs[c].pane
               /\ ctxs'[c].status = "completed"
    BY RowTypes DEF DispatchRow
  <1>6. DOMAIN ctxs' = DOMAIN ctxs
    BY <1>1 DEF CtxIds
  <1>7. RetiresOnly
    BY <1>4, <1>5, <1>6 DEF RetiresOnly
  <1>. QED  BY <1>3, <1>4, <1>7, FunctionIsSeq, RowTypes

(* Setting a task's status, as taskUpdate, reconciliation and re-blocking   *)
(* do: only a person writes `dispatched' that way.                          *)
LEMMA UpdateTaskStatusStep ==
    ASSUME TypeOK, NEW t \in Tasks, NEW s \in TaskStatus,
           s = "dispatched" => ~NoHandMadeDispatch, UpdateTaskStatus(t, s)
    PROVE  /\ tstatus' \in [Tasks -> TaskStatus \cup {"none", "deleted"}]
           /\ ctxs' \in Seq(DispatchRow)
           /\ NoNewDispatch
  <1>1. CASE s = "completed"
    <2>1. /\ ctxs' \in Seq(DispatchRow)
          /\ RetiresOnly
          /\ \A c \in CtxIds : ctxs[c].task # t => ctxs'[c] = ctxs[c]
      BY <1>1, CompleteActiveRows DEF UpdateTaskStatus
    <2>2. tstatus' = PromoteReadyTasks([tstatus EXCEPT ![t] = s], t)
      BY <1>1 DEF UpdateTaskStatus
    <2>3. tstatus' \in [Tasks -> TaskStatus \cup {"none", "deleted"}]
      BY <2>2 DEF TypeOK, PromoteReadyTasks, TaskStatus
    <2>4. \A u \in Tasks : tstatus'[u] = "dispatched" => u # t /\ tstatus[u] = "dispatched"
      BY <1>1, <2>2 DEF TypeOK, PromoteReadyTasks
    <2>. QED  BY <2>1, <2>3, <2>4 DEF NoNewDispatch
  <1>2. CASE s # "completed"
    <2>1. tstatus' = [tstatus EXCEPT ![t] = s] /\ UNCHANGED ctxs
      BY <1>2 DEF UpdateTaskStatus
    <2>. QED  BY <2>1 DEF TypeOK, NoNewDispatch, RetiresOnly
  <1>. QED  BY <1>1, <1>2

(* Failing a row, whatever its status was. *)
LEMMA FailDispatchStep ==
    ASSUME TypeOK, NEW c \in CtxIds, FailDispatch(c)
    PROVE  /\ tstatus' \in [Tasks -> TaskStatus \cup {"none", "deleted"}]
           /\ ctxs' \in Seq(DispatchRow)
           /\ NoNewDispatch
  <1>. DEFINE n == IF ctxs[c].failures < FailureLimit
                   THEN ctxs[c].failures + 1 ELSE FailureLimit
              to == IF n = FailureLimit THEN "circuit_broken" ELSE "failed"
              row == [ctxs[c] EXCEPT !.status = to, !.failures = n]
              back == IF n = FailureLimit THEN "failed" ELSE "ready"
  <1>1. /\ ctxs' = [ctxs EXCEPT ![c].status = to, ![c].failures = n]
        /\ tstatus' = WithStatus(ctxs[c].task, back)
    BY DEF FailDispatch
  <1>2. row \in DispatchRow
    <2>1. n \in 0 .. FailureLimit
      BY RowTypes DEF FailureLimit
    <2>2. to \in CtxStatus
      BY DEF CtxStatus
    <2>. HIDE DEF n, to
    <2>. QED  BY <2>1, <2>2, RowTypes DEF DispatchRow
  <1>3. ctxs' = [ctxs EXCEPT ![c] = row]
    BY <1>1, RowTypes
  <1>4. ctxs' \in Seq(DispatchRow) /\ DOMAIN ctxs' = DOMAIN ctxs
    BY <1>2, <1>3, RowTypes, ExceptSeq DEF TypeOK
  <1>5. /\ ctxs'[c] = row
        /\ \A d \in CtxIds : d # c => ctxs'[d] = ctxs[d]
    BY <1>3, RowTypes
  <1>6. /\ row.task = ctxs[c].task /\ row.handle = ctxs[c].handle
        /\ row.pane = ctxs[c].pane /\ row.status # "dispatched"
    BY RowTypes DEF DispatchRow
  <1>7. RetiresOnly
    <2>1. \A d \in CtxIds :
            /\ ctxs'[d].task = ctxs[d].task
            /\ ctxs'[d].handle = ctxs[d].handle
            /\ ctxs'[d].pane = ctxs[d].pane
            /\ ctxs'[d].status = "dispatched" => ctxs[d].status = "dispatched"
      <3>. SUFFICES ASSUME NEW d \in CtxIds
                    PROVE  /\ ctxs'[d].task = ctxs[d].task
                           /\ ctxs'[d].handle = ctxs[d].handle
                           /\ ctxs'[d].pane = ctxs[d].pane
                           /\ ctxs'[d].status = "dispatched" => ctxs[d].status = "dispatched"
        OBVIOUS
      <3>1. CASE d = c
        <4>. HIDE DEF row
        <4>. QED  BY <3>1, <1>5, <1>6
      <3>2. CASE d # c
        BY <3>2, <1>5
      <3>. QED  BY <3>1, <3>2
    <2>. QED  BY <1>4, <2>1 DEF RetiresOnly
  <1>8. /\ tstatus' \in [Tasks -> TaskStatus \cup {"none", "deleted"}]
        /\ \A t \in Tasks : tstatus'[t] = "dispatched" =>
                tstatus[t] = "dispatched" /\ t # ctxs[c].task
    BY <1>1, RowTypes DEF TypeOK, WithStatus, HasTask, TaskStatus
  <1>. QED  BY <1>4, <1>5, <1>7, <1>8 DEF NoNewDispatch

-----------------------------------------------------------------------------
(* One lemma: every action but DispatchTask is a NoNewDispatch step *)

(* Steps that leave the task and dispatch tables alone. *)
LEMMA NoTableChange ==
    ASSUME UNCHANGED <<tstatus, ctxs>>
    PROVE  NoNewDispatch
  BY DEF NoNewDispatch, RetiresOnly

LEMMA OtherStep ==
    ASSUME TypeOK, Next,
           ~(\E t \in Tasks, h \in Handles, inject \in BOOLEAN : DispatchTask(t, h, inject))
    PROVE  TypeOK' /\ NoNewDispatch
  <1>. USE RowTypes
  <1>1. ASSUME NEW t \in Tasks, NEW ds \in SUBSET Tasks, CreateTask(t, ds)
        PROVE  TypeOK' /\ NoNewDispatch
    <2>1. /\ tstatus' = [tstatus EXCEPT ![t] = IF ds = {} THEN "ready" ELSE "pending"]
          /\ deps' = [deps EXCEPT ![t] = ds]
          /\ UNCHANGED <<ctxs, gates, sending, gen, alive>>
      BY <1>1 DEF CreateTask, runtime
    <2>2. TypeOK'
      BY <2>1 DEF TypeOK, TaskStatus, CtxIds
    <2>3. NoNewDispatch
      BY <2>1 DEF TypeOK, NoNewDispatch, RetiresOnly
    <2>. QED  BY <2>2, <2>3
  <1>2. ASSUME NEW t \in Tasks, NEW s \in OperatorStatuses, TaskUpdate(t, s)
        PROVE  TypeOK' /\ NoNewDispatch
    <2>1. s \in TaskStatus /\ (s = "dispatched" => ~NoHandMadeDispatch)
      BY StatusAssumption DEF NoHandMadeDispatch
    <2>2. /\ UpdateTaskStatus(t, s)
          /\ UNCHANGED <<deps, gates, sending, gen, alive>>
      BY <1>2 DEF TaskUpdate, runtime
    <2>3. /\ tstatus' \in [Tasks -> TaskStatus \cup {"none", "deleted"}]
          /\ ctxs' \in Seq(DispatchRow)
          /\ NoNewDispatch
      BY <2>1, <2>2, UpdateTaskStatusStep
    <2>. QED  BY <2>2, <2>3 DEF TypeOK, NoNewDispatch, RetiresOnly, CtxIds
  <1>3. ASSUME NEW c \in sending, PromptSent(c)
        PROVE  TypeOK' /\ NoNewDispatch
    <2>1. sending' = sending \ {c} /\ UNCHANGED <<tstatus, deps, ctxs, gates, gen, alive>>
      BY <1>3 DEF PromptSent, tables, runtime
    <2>. QED  BY <2>1, NoTableChange DEF TypeOK, CtxIds
  <1>4. ASSUME NEW c \in sending, PromptFailed(c)
        PROVE  TypeOK' /\ NoNewDispatch
    <2>1. c \in CtxIds /\ sending' = sending \ {c} /\ UNCHANGED <<deps, gates, gen, alive>>
      BY <1>4 DEF PromptFailed, runtime, TypeOK
    <2>2. CASE ctxs[c].status = "deleted"
      <3>1. UNCHANGED <<tstatus, ctxs>>
        BY <1>4, <2>2 DEF PromptFailed
      <3>. QED  BY <2>1, <3>1, NoTableChange DEF TypeOK, CtxIds
    <2>3. CASE ctxs[c].status # "deleted"
      <3>1. FailDispatch(c)
        BY <1>4, <2>3 DEF PromptFailed
      <3>2. /\ tstatus' \in [Tasks -> TaskStatus \cup {"none", "deleted"}]
            /\ ctxs' \in Seq(DispatchRow)
            /\ NoNewDispatch
        BY <2>1, <3>1, FailDispatchStep
      <3>. QED  BY <2>1, <3>2 DEF TypeOK, NoNewDispatch, RetiresOnly, CtxIds
    <2>. QED  BY <2>2, <2>3
  <1>5. ASSUME NEW t \in Tasks, CreateGate(t)
        PROVE  TypeOK' /\ NoNewDispatch
    <2>1. /\ gates' = Append(gates, [task |-> t, status |-> "pending"])
          /\ ctxs' = CompleteActiveDispatchForTask(t)
          /\ tstatus' = WithStatus(t, "blocked")
          /\ UNCHANGED <<deps, sending, gen, alive>>
      BY <1>5 DEF CreateGate, runtime
    <2>2. /\ ctxs' \in Seq(DispatchRow)
          /\ RetiresOnly
          /\ \A c \in CtxIds : ctxs[c].task # t => ctxs'[c] = ctxs[c]
      BY <2>1, CompleteActiveRows
    <2>3. /\ tstatus' \in [Tasks -> TaskStatus \cup {"none", "deleted"}]
          /\ \A u \in Tasks : tstatus'[u] = "dispatched" => u # t /\ tstatus[u] = "dispatched"
      BY <2>1 DEF TypeOK, WithStatus, HasTask, TaskStatus
    <2>4. gates' \in Seq(GateRow)
      BY <2>1 DEF TypeOK, GateRow
    <2>. QED  BY <2>1, <2>2, <2>3, <2>4 DEF TypeOK, NoNewDispatch, RetiresOnly, CtxIds
  <1>6. ASSUME NEW t \in Tasks, HandleEscalation(t)
        PROVE  TypeOK' /\ NoNewDispatch
    <2>1. PICK c \in CtxIds : FailDispatch(c)
      BY <1>6 DEF HandleEscalation
    <2>2. UNCHANGED <<deps, gates, sending, gen, alive>>
      BY <1>6 DEF HandleEscalation, runtime
    <2>3. /\ tstatus' \in [Tasks -> TaskStatus \cup {"none", "deleted"}]
          /\ ctxs' \in Seq(DispatchRow)
          /\ NoNewDispatch
      BY <2>1, FailDispatchStep
    <2>. QED  BY <2>2, <2>3 DEF TypeOK, NoNewDispatch, RetiresOnly, CtxIds
  <1>7. ASSUME NEW g \in DOMAIN gates, ResolveGate(g)
        PROVE  TypeOK' /\ NoNewDispatch
    <2>1. /\ gates' = [gates EXCEPT ![g].status = "resolved"]
          /\ tstatus' = WithStatus(gates[g].task, "ready")
          /\ UNCHANGED <<deps, ctxs, sending, gen, alive>>
      BY <1>7 DEF ResolveGate, runtime
    <2>2. gates' \in Seq(GateRow)
      <3>. DEFINE row == [gates[g] EXCEPT !.status = "resolved"]
      <3>1. row \in GateRow
        BY GateTypes DEF GateRow
      <3>2. gates' = [gates EXCEPT ![g] = row]
        BY <2>1
      <3>. QED  BY <3>1, <3>2, GateTypes, ExceptSeq DEF TypeOK
    <2>3. /\ tstatus' \in [Tasks -> TaskStatus \cup {"none", "deleted"}]
          /\ \A u \in Tasks : tstatus'[u] = "dispatched" => tstatus[u] = "dispatched"
      BY <2>1 DEF TypeOK, WithStatus, HasTask, TaskStatus
    <2>. QED  BY <2>1, <2>2, <2>3 DEF TypeOK, NoNewDispatch, RetiresOnly, CtxIds
  <1>8. ASSUME NEW g \in DOMAIN gates, ReblockGatedTask(g)
        PROVE  TypeOK' /\ NoNewDispatch
    <2>1. /\ UpdateTaskStatus(gates[g].task, "blocked")
          /\ UNCHANGED <<deps, gates, sending, gen, alive>>
      BY <1>8 DEF ReblockGatedTask, runtime
    <2>2. gates[g].task \in Tasks
      BY GateTypes
    <2>3. /\ tstatus' \in [Tasks -> TaskStatus \cup {"none", "deleted"}]
          /\ ctxs' \in Seq(DispatchRow)
          /\ NoNewDispatch
      BY <2>1, <2>2, UpdateTaskStatusStep DEF TaskStatus
    <2>. QED  BY <2>1, <2>3 DEF TypeOK, NoNewDispatch, RetiresOnly, CtxIds
  <1>9. ASSUME ResetTasks
        PROVE  TypeOK' /\ NoNewDispatch
    <2>1. /\ tstatus' = [t \in Tasks |-> IF HasTask(t) THEN "deleted" ELSE tstatus[t]]
          /\ ctxs' = [c \in CtxIds |-> [ctxs[c] EXCEPT !.status = "deleted"]]
          /\ gates' = [g \in DOMAIN gates |-> [gates[g] EXCEPT !.status = "deleted"]]
          /\ UNCHANGED <<deps, sending, gen, alive>>
      BY <1>9 DEF ResetTasks, runtime
    <2>2. ctxs' \in [1 .. Len(ctxs) -> DispatchRow]
      BY <2>1 DEF DispatchRow, CtxStatus
    <2>3. ctxs' \in Seq(DispatchRow) /\ DOMAIN ctxs' = DOMAIN ctxs
      BY <2>2, FunctionIsSeq DEF CtxIds
    <2>4. \A c \in CtxIds : /\ ctxs'[c].task = ctxs[c].task
                            /\ ctxs'[c].handle = ctxs[c].handle
                            /\ ctxs'[c].pane = ctxs[c].pane
                            /\ ctxs'[c].status = "deleted"
      BY <2>1 DEF DispatchRow
    <2>5. gates' \in Seq(GateRow)
      <3>1. gates \in [1 .. Len(gates) -> GateRow] /\ Len(gates) \in Nat
        BY LenProperties DEF TypeOK
      <3>2. gates' \in [1 .. Len(gates) -> GateRow]
        BY <2>1, <3>1 DEF GateRow
      <3>. QED  BY <3>1, <3>2, FunctionIsSeq
    <2>6. /\ tstatus' \in [Tasks -> TaskStatus \cup {"none", "deleted"}]
          /\ \A u \in Tasks : tstatus'[u] # "dispatched"
      BY <2>1 DEF TypeOK, HasTask, TaskStatus
    <2>. QED  BY <2>1, <2>3, <2>4, <2>5, <2>6 DEF TypeOK, NoNewDispatch, RetiresOnly, CtxIds
  <1>10. ASSUME NEW t \in Tasks, NEW c \in CtxIds, NEW h \in Handles,
                NEW p \in Panes \cup {NoPane}, WorkerDone(t, c, h, p)
         PROVE  TypeOK' /\ NoNewDispatch
    <2>1. /\ UpdateTaskStatus(t, "completed")
          /\ UNCHANGED <<deps, gates, sending, gen, alive>>
      BY <1>10 DEF WorkerDone, runtime
    <2>2. /\ tstatus' \in [Tasks -> TaskStatus \cup {"none", "deleted"}]
          /\ ctxs' \in Seq(DispatchRow)
          /\ NoNewDispatch
      BY <2>1, UpdateTaskStatusStep DEF TaskStatus
    <2>. QED  BY <2>1, <2>2 DEF TypeOK, NoNewDispatch, RetiresOnly, CtxIds
  <1>11. ASSUME NEW p \in Panes, AgentExit(p)
         PROVE  TypeOK' /\ NoNewDispatch
    <2>1. alive' = alive \ {p} /\ UNCHANGED <<deps, gates, sending, gen>>
      BY <1>11 DEF AgentExit
    <2>2. CASE UNCHANGED <<tstatus, ctxs>>
      BY <2>1, <2>2, NoTableChange DEF TypeOK, CtxIds
    <2>3. ASSUME NEW c \in CtxIds, FailDispatch(c)
          PROVE  TypeOK' /\ NoNewDispatch
      <3>1. /\ tstatus' \in [Tasks -> TaskStatus \cup {"none", "deleted"}]
            /\ ctxs' \in Seq(DispatchRow)
            /\ NoNewDispatch
        BY <2>3, FailDispatchStep
      <3>. QED  BY <2>1, <3>1 DEF TypeOK, NoNewDispatch, RetiresOnly, CtxIds
    <2>. QED  BY <1>11, <2>2, <2>3 DEF AgentExit
  <1>12. ASSUME NEW p \in Panes, PaneRestart(p)
         PROVE  TypeOK' /\ NoNewDispatch
    BY <1>12, NoTableChange, BoundsAssumption DEF PaneRestart, tables, TypeOK, CtxIds
  <1>13. ASSUME NEW p \in Panes, RemintHandle(p)
         PROVE  TypeOK' /\ NoNewDispatch
    BY <1>13, NoTableChange, BoundsAssumption DEF RemintHandle, tables, TypeOK, CtxIds
  <1>14. ASSUME NEW survivors \in SUBSET alive, AppRestart(survivors)
         PROVE  TypeOK' /\ NoNewDispatch
    BY <1>14, NoTableChange DEF AppRestart, tables, TypeOK, CtxIds
  <1>. QED
    BY <1>1, <1>2, <1>3, <1>4, <1>5, <1>6, <1>7, <1>8, <1>9, <1>10, <1>11, <1>12, <1>13,
       <1>14, Zenon DEF Next

-----------------------------------------------------------------------------
(* The one step that opens a dispatch *)

(* The new row is the last one, in progress, for a worker no row occupies,  *)
(* and the rows before it are as they were.                                 *)
LEMMA DispatchTaskStep ==
    ASSUME TypeOK, NEW t \in Tasks, NEW h \in Handles, NEW inject \in BOOLEAN,
           DispatchTask(t, h, inject)
    PROVE  LET new == Len(ctxs) + 1
           IN  /\ TypeOK'
               /\ new \in 1 .. MaxDispatches
               /\ DOMAIN ctxs' = CtxIds \cup {new}
               /\ \A c \in CtxIds : ctxs'[c] = ctxs[c]
               /\ ctxs'[new].task = t
               /\ ctxs'[new].handle = h
               /\ ctxs'[new].pane = TerminalPaneKey(h)
               /\ ctxs'[new].status = "dispatched"
               /\ TerminalPaneKey(h) \in Panes \cup {NoPane}
               /\ \A c \in CtxIds : ~Occupies(c, h, TerminalPaneKey(h))
               /\ tstatus' = [tstatus EXCEPT ![t] = "dispatched"]
  <1>. DEFINE new == Len(ctxs) + 1
  <1>1. /\ CreateDispatchContext(t, h)
        /\ sending' = IF inject THEN sending \cup {new} ELSE sending
        /\ UNCHANGED <<deps, gates, gen, alive>>
    BY DEF DispatchTask, runtime
  <1>2. PICK n \in 0 .. FailureLimit :
            ctxs' = Append(ctxs, [task |-> t, handle |-> h, pane |-> TerminalPaneKey(h),
                                  status |-> "dispatched", failures |-> n])
    BY <1>1 DEF CreateDispatchContext
  <1>3. /\ Len(ctxs) < MaxDispatches
        /\ \A c \in CtxIds : ~Occupies(c, h, TerminalPaneKey(h))
        /\ tstatus' = [tstatus EXCEPT ![t] = "dispatched"]
    BY <1>1 DEF CreateDispatchContext
  <1>4. TerminalPaneKey(h) \in Panes \cup {NoPane}
    BY DEF TerminalPaneKey, Handles
  <1>. DEFINE row == [task |-> t, handle |-> h, pane |-> TerminalPaneKey(h),
                      status |-> "dispatched", failures |-> n]
  <1>5. row \in DispatchRow
    BY <1>4 DEF DispatchRow, CtxStatus
  <1>6. /\ ctxs' \in Seq(DispatchRow)
        /\ DOMAIN ctxs' = CtxIds \cup {new}
        /\ ctxs'[new] = row
        /\ \A c \in CtxIds : ctxs'[c] = ctxs[c]
    <2>. HIDE DEF row
    <2>1. ctxs' = Append(ctxs, row)
      BY <1>2 DEF row
    <2>2. ctxs \in Seq(DispatchRow)
      BY DEF TypeOK
    <2>3. ctxs' \in Seq(DispatchRow) /\ Len(ctxs') = Len(ctxs) + 1
      BY <1>5, <2>1, <2>2, AppendProperties
    <2>4. DOMAIN ctxs' = 1 .. Len(ctxs) + 1
      BY <2>3, LenProperties
    <2>. QED  BY <1>5, <2>1, <2>2, <2>3, <2>4, RowTypes, AppendProperties
  <1>7. TypeOK'
    BY <1>1, <1>3, <1>6 DEF TypeOK, TaskStatus, CtxIds
  <1>. QED  BY <1>3, <1>4, <1>6, <1>7, RowTypes, BoundsAssumption

-----------------------------------------------------------------------------
(* The inductive invariant *)

IInv ==
    /\ TypeOK
    /\ DispatchLock
    /\ NoHandMadeDispatch => DispatchedTaskHasWorker

(* Retiring rows keeps the lock, and the worker of a task still dispatched. *)
LEMMA NoNewDispatchKeepsInv ==
    ASSUME IInv, TypeOK', NoNewDispatch
    PROVE  IInv'
  <1>. USE DEF IInv
  <1>1. DispatchLock'
    <2>. SUFFICES ASSUME NEW c \in CtxIds, NEW d \in CtxIds, c # d,
                         ctxs'[c].status = "dispatched",
                         ctxs'[d].status = "dispatched",
                         \/ ctxs'[d].handle = ctxs'[c].handle
                         \/ ctxs'[c].pane # NoPane /\ ctxs'[d].pane = ctxs'[c].pane
                  PROVE  FALSE
      BY DEF DispatchLock, Occupies, Active, NoNewDispatch, RetiresOnly, CtxIds
    <2>1. Active(c) /\ Occupies(d, ctxs[c].handle, ctxs[c].pane)
      BY DEF Occupies, Active, NoNewDispatch, RetiresOnly
    <2>. QED  BY <2>1 DEF DispatchLock
  <1>2. ASSUME NoHandMadeDispatch  PROVE DispatchedTaskHasWorker'
    <2>. USE <1>2
    <2>. SUFFICES ASSUME NEW t \in Tasks, tstatus'[t] = "dispatched"
                  PROVE  (\E c \in CtxIds : IsLast(c, RowsOf(t)) /\ Active(c))'
      BY DEF DispatchedTaskHasWorker
    <2>1. PICK c \in CtxIds : IsLast(c, RowsOf(t)) /\ Active(c)
      BY DEF DispatchedTaskHasWorker, NoNewDispatch
    <2>2. RowsOf(t)' = RowsOf(t)
      BY DEF RowsOf, CtxIds, NoNewDispatch, RetiresOnly
    <2>3. ctxs'[c] = ctxs[c]
      BY <2>1 DEF NoNewDispatch, IsLast, RowsOf
    <2>. QED  BY <2>1, <2>2, <2>3 DEF IsLast, Active, CtxIds, NoNewDispatch, RetiresOnly
  <1>. QED  BY <1>1, <1>2

LEMMA DispatchTaskKeepsInv ==
    ASSUME IInv, NEW t \in Tasks, NEW h \in Handles, NEW inject \in BOOLEAN,
           DispatchTask(t, h, inject)
    PROVE  IInv'
  <1>. DEFINE new == Len(ctxs) + 1
  <1>1. /\ TypeOK'
        /\ DOMAIN ctxs' = CtxIds \cup {new}
        /\ \A c \in CtxIds : ctxs'[c] = ctxs[c]
        /\ ctxs'[new].task = t
        /\ ctxs'[new].handle = h
        /\ ctxs'[new].pane = TerminalPaneKey(h)
        /\ ctxs'[new].status = "dispatched"
        /\ \A c \in CtxIds : ~Occupies(c, h, TerminalPaneKey(h))
        /\ tstatus' = [tstatus EXCEPT ![t] = "dispatched"]
    BY DispatchTaskStep DEF IInv
  <1>2. \A c \in CtxIds : c < new
    BY RowTypes DEF IInv
  <1>3. DispatchLock'
    <2>. SUFFICES ASSUME NEW c \in CtxIds \cup {new}, NEW d \in CtxIds \cup {new}, c # d,
                         ctxs'[c].status = "dispatched",
                         ctxs'[d].status = "dispatched",
                         \/ ctxs'[d].handle = ctxs'[c].handle
                         \/ ctxs'[c].pane # NoPane /\ ctxs'[d].pane = ctxs'[c].pane
                  PROVE  FALSE
      BY <1>1 DEF DispatchLock, Occupies, Active, CtxIds
    <2>1. CASE c \in CtxIds /\ d \in CtxIds
      BY <1>1, <2>1 DEF DispatchLock, Occupies, Active, IInv
    <2>2. CASE c = new /\ d \in CtxIds
      BY <1>1, <2>2 DEF Occupies, Active
    <2>3. CASE d = new /\ c \in CtxIds
      BY <1>1, <2>3 DEF Occupies, Active
    <2>. QED  BY <2>1, <2>2, <2>3
  <1>4. ASSUME NoHandMadeDispatch  PROVE DispatchedTaskHasWorker'
    <2>. USE <1>4
    <2>. SUFFICES ASSUME NEW u \in Tasks, tstatus'[u] = "dispatched"
                  PROVE  (\E c \in CtxIds : IsLast(c, RowsOf(u)) /\ Active(c))'
      BY DEF DispatchedTaskHasWorker
    <2>1. CASE u = t
      <3>1. new \in RowsOf(u)' /\ \A d \in RowsOf(u)' : d <= new
        BY <1>1, <1>2, <2>1, RowTypes DEF RowsOf, CtxIds, IInv
      <3>. QED  BY <1>1, <3>1 DEF IsLast, Active, CtxIds
    <2>2. CASE u # t
      <3>1. RowsOf(u)' = RowsOf(u)
        BY <1>1, <2>2 DEF RowsOf, CtxIds
      <3>2. PICK c \in CtxIds : IsLast(c, RowsOf(u)) /\ Active(c)
        BY <1>1, <2>2 DEF IInv, TypeOK, DispatchedTaskHasWorker
      <3>. QED  BY <1>1, <3>1, <3>2 DEF IsLast, Active, CtxIds
    <2>. QED  BY <2>1, <2>2
  <1>. QED  BY <1>1, <1>3, <1>4 DEF IInv

LEMMA InitInv == Init => IInv
  <1>. SUFFICES ASSUME Init  PROVE IInv
    OBVIOUS
  <1>1. ctxs = <<>> /\ gates = <<>> /\ CtxIds = {}
    BY DEF Init, CtxIds
  <1>2. TypeOK
    BY <1>1, BoundsAssumption DEF Init, TypeOK
  <1>. QED  BY <1>1, <1>2 DEF Init, IInv, DispatchLock, DispatchedTaskHasWorker

LEMMA NextInv ==
    ASSUME IInv, [Next]_vars
    PROVE  IInv'
  <1>1. CASE UNCHANGED vars
    BY <1>1, NoTableChange, NoNewDispatchKeepsInv DEF vars, IInv, TypeOK, CtxIds
  <1>2. CASE \E t \in Tasks, h \in Handles, inject \in BOOLEAN : DispatchTask(t, h, inject)
    BY <1>2, DispatchTaskKeepsInv
  <1>3. CASE /\ Next
             /\ ~(\E t \in Tasks, h \in Handles, inject \in BOOLEAN :
                    DispatchTask(t, h, inject))
    BY <1>3, OtherStep, NoNewDispatchKeepsInv DEF IInv
  <1>. QED  BY <1>1, <1>2, <1>3

LEMMA InvTheorem == Spec => []IInv
  <1>1. IInv /\ [Next]_vars => IInv'
    BY NextInv
  <1>. QED  BY <1>1, InitInv, PTL DEF Spec

-----------------------------------------------------------------------------
(* Safety *)

(* The tables are typed in every reachable state. *)
THEOREM TypeCorrect == Spec => []TypeOK
  BY InvTheorem, PTL DEF IInv

(* createDispatchContext's lock holds in every reachable state: no two      *)
(* dispatches in progress name the same handle or the same pane.            *)
THEOREM LockHolds == Spec => []DispatchLock
  BY InvTheorem, PTL DEF IInv

(* In every reachable state the newest row of a task shown as dispatched is *)
(* in progress, so the worker that reconciliation waits for exists.         *)
THEOREM WorkerExists ==
    ASSUME "dispatched" \notin OperatorStatuses
    PROVE  Spec => []DispatchedTaskHasWorker
  <1>1. IInv => DispatchedTaskHasWorker
    BY DEF IInv, NoHandMadeDispatch
  <1>. QED  BY <1>1, InvTheorem, PTL

(* The row a worker_done is accepted for is the row that is completed. *)
THEOREM AcceptedReportCompletesItsRow == Spec => AcceptedReportFreesWorker
  <1>1. ASSUME TypeOK, NEW t \in Tasks, NEW c \in CtxIds, NEW h \in Handles,
               NEW p \in Panes \cup {NoPane}, WorkerDone(t, c, h, p)
        PROVE  ctxs'[c].status = "completed"
    <2>1. IsLast(c, RowsOf(t)) /\ Active(c) /\ ctxs' = CompleteActiveDispatchForTask(t)
      BY <1>1 DEF WorkerDone, UpdateTaskStatus
    <2>2. IsLast(c, ActiveFor(t))
      BY <2>1 DEF IsLast, ActiveFor
    <2>3. ctxs'[c] = [ctxs[c] EXCEPT !.status = "completed"]
      BY <2>1, <2>2 DEF CompleteActiveDispatchForTask
    <2>. QED  BY <1>1, <2>3, RowTypes DEF DispatchRow
  <1>2. TypeOK =>
            [\A t \in Tasks, c \in CtxIds, h \in Handles, p \in Panes \cup {NoPane} :
                WorkerDone(t, c, h, p) => ctxs'[c].status = "completed"]_vars
    BY <1>1
  <1>. QED  BY <1>2, TypeCorrect, PTL DEF AcceptedReportFreesWorker

-----------------------------------------------------------------------------
(* Completion and deletion *)

(* The step completes no task. *)
CompletesNone ==
    \A d \in Tasks : tstatus'[d] = "completed" => tstatus[d] = "completed"

CompletesOne == \E t \in Tasks : UpdateTaskStatus(t, "completed")

(* What a reset deleted is not brought back by the step. *)
DeletedStays ==
    /\ \A t \in Tasks : tstatus[t] = "deleted" => tstatus'[t] = "deleted"
    /\ \A c \in CtxIds : ctxs[c].status = "deleted" => ctxs'[c].status = "deleted"

(* Setting the status of a task that exists completes tasks only when that  *)
(* is the status set.                                                       *)
LEMMA UpdateStatusEffect ==
    ASSUME TypeOK, NEW t \in Tasks, HasTask(t), NEW s \in TaskStatus, UpdateTaskStatus(t, s)
    PROVE  DeletedStays /\ (CompletesNone \/ CompletesOne)
  <1>1. CASE s = "completed"
    <2>1. /\ tstatus' = PromoteReadyTasks([tstatus EXCEPT ![t] = s], t)
          /\ ctxs' = CompleteActiveDispatchForTask(t)
      BY <1>1 DEF UpdateTaskStatus
    <2>2. \A u \in Tasks : tstatus[u] = "deleted" => tstatus'[u] = "deleted"
      BY <2>1 DEF TypeOK, PromoteReadyTasks, HasTask, TaskStatus
    <2>3. \A c \in CtxIds : ctxs[c].status = "deleted" => ctxs'[c].status = "deleted"
      BY <2>1 DEF CompleteActiveDispatchForTask, IsLast, ActiveFor, Active
    <2>. QED  BY <1>1, <2>2, <2>3 DEF DeletedStays, CompletesOne
  <1>2. CASE s # "completed"
    <2>1. tstatus' = [tstatus EXCEPT ![t] = s] /\ UNCHANGED ctxs
      BY <1>2 DEF UpdateTaskStatus
    <2>. QED  BY <1>2, <2>1 DEF TypeOK, HasTask, TaskStatus, DeletedStays, CompletesNone
  <1>. QED  BY <1>1, <1>2

(* Failing a row that was not deleted. *)
LEMMA FailDispatchEffect ==
    ASSUME TypeOK, NEW c \in CtxIds, ctxs[c].status # "deleted", FailDispatch(c)
    PROVE  DeletedStays /\ CompletesNone
  <1>. DEFINE n == IF ctxs[c].failures < FailureLimit
                   THEN ctxs[c].failures + 1 ELSE FailureLimit
  <1>1. /\ ctxs' = [ctxs EXCEPT ![c].status = IF n = FailureLimit
                                              THEN "circuit_broken" ELSE "failed",
                                ![c].failures = n]
        /\ tstatus' = WithStatus(ctxs[c].task, IF n = FailureLimit THEN "failed" ELSE "ready")
    BY DEF FailDispatch
  <1>2. \A d \in CtxIds : d # c => ctxs'[d] = ctxs[d]
    BY <1>1, RowTypes
  <1>3. ctxs[c].task \in Tasks
    BY RowTypes
  <1>. QED  BY <1>1, <1>2, <1>3 DEF TypeOK, WithStatus, HasTask, TaskStatus,
                                   DeletedStays, CompletesNone

LEMMA StepEffect ==
    ASSUME TypeOK, Next
    PROVE  DeletedStays /\ (CompletesNone \/ CompletesOne)
  <1>. DEFINE Effect == DeletedStays /\ (CompletesNone \/ CompletesOne)
  <1>. USE RowTypes
  <1>0. ASSUME UNCHANGED <<tstatus, ctxs>>  PROVE Effect
    BY <1>0 DEF DeletedStays, CompletesNone
  <1>1. ASSUME NEW t \in Tasks, NEW ds \in SUBSET Tasks, CreateTask(t, ds)  PROVE Effect
    BY <1>1 DEF CreateTask, TypeOK, DeletedStays, CompletesNone
  <1>2. ASSUME NEW t \in Tasks, NEW s \in OperatorStatuses, TaskUpdate(t, s)  PROVE Effect
    BY <1>2, UpdateStatusEffect, StatusAssumption DEF TaskUpdate
  <1>3. ASSUME NEW t \in Tasks, NEW h \in Handles, NEW inject \in BOOLEAN,
               DispatchTask(t, h, inject)
        PROVE  Effect
    <2>1. /\ \A c \in CtxIds : ctxs'[c] = ctxs[c]
          /\ tstatus' = [tstatus EXCEPT ![t] = "dispatched"]
      BY <1>3, DispatchTaskStep
    <2>2. tstatus[t] = "ready"
      BY <1>3 DEF DispatchTask, CreateDispatchContext
    <2>. QED  BY <2>1, <2>2 DEF TypeOK, DeletedStays, CompletesNone
  <1>4. ASSUME NEW c \in sending, PromptSent(c) \/ PromptFailed(c)  PROVE Effect
    <2>1. c \in CtxIds
      BY <1>4 DEF TypeOK
    <2>2. CASE PromptSent(c)
      BY <1>0, <2>2 DEF PromptSent, tables
    <2>3. CASE PromptFailed(c) /\ ctxs[c].status = "deleted"
      BY <1>0, <2>3 DEF PromptFailed
    <2>4. CASE PromptFailed(c) /\ ctxs[c].status # "deleted"
      BY <2>1, <2>4, FailDispatchEffect DEF PromptFailed
    <2>. QED  BY <1>4, <2>2, <2>3, <2>4
  <1>5. ASSUME NEW t \in Tasks, CreateGate(t)  PROVE Effect
    <2>1. ctxs' = CompleteActiveDispatchForTask(t) /\ tstatus' = WithStatus(t, "blocked")
      BY <1>5 DEF CreateGate
    <2>2. \A c \in CtxIds : ctxs[c].status = "deleted" => ctxs'[c].status = "deleted"
      BY <2>1 DEF CompleteActiveDispatchForTask, IsLast, ActiveFor, Active
    <2>. QED  BY <2>1, <2>2 DEF TypeOK, WithStatus, HasTask, TaskStatus,
                                DeletedStays, CompletesNone
  <1>6. ASSUME NEW t \in Tasks, HandleEscalation(t)  PROVE Effect
    <2>1. PICK c \in CtxIds : IsLast(c, RowsOf(t)) /\ FailDispatch(c)
      BY <1>6 DEF HandleEscalation
    <2>2. ctxs[c].status # "deleted"
      BY <2>1 DEF IsLast, RowsOf
    <2>. QED  BY <2>1, <2>2, FailDispatchEffect
  <1>7. ASSUME NEW g \in DOMAIN gates, ResolveGate(g)  PROVE Effect
    <2>1. UNCHANGED ctxs /\ tstatus' = WithStatus(gates[g].task, "ready")
      BY <1>7 DEF ResolveGate
    <2>. QED  BY <2>1, GateTypes DEF TypeOK, WithStatus, HasTask, TaskStatus,
                                     DeletedStays, CompletesNone
  <1>8. ASSUME NEW g \in DOMAIN gates, ReblockGatedTask(g)  PROVE Effect
    BY <1>8, GateTypes, UpdateStatusEffect DEF ReblockGatedTask, TaskStatus
  <1>9. ASSUME ResetTasks  PROVE Effect
    <2>1. \A c \in CtxIds : ctxs'[c].status = "deleted"
      <3>1. \A c \in CtxIds : ctxs'[c] = [ctxs[c] EXCEPT !.status = "deleted"]
        BY <1>9 DEF ResetTasks
      <3>. QED  BY <3>1 DEF DispatchRow
    <2>2. tstatus' = [t \in Tasks |-> IF HasTask(t) THEN "deleted" ELSE tstatus[t]]
      BY <1>9 DEF ResetTasks
    <2>. QED  BY <2>1, <2>2 DEF DeletedStays, CompletesNone
  <1>10. ASSUME NEW t \in Tasks, NEW c \in CtxIds, NEW h \in Handles,
                NEW p \in Panes \cup {NoPane}, WorkerDone(t, c, h, p)
         PROVE  Effect
    BY <1>10, UpdateStatusEffect DEF WorkerDone, HasTask, TaskStatus
  <1>11. ASSUME NEW p \in Panes, AgentExit(p)  PROVE Effect
    <2>1. CASE UNCHANGED <<ctxs, tstatus>>
      BY <1>0, <2>1
    <2>2. ASSUME NEW c \in CtxIds, Occupies(c, <<p, gen[p]>>, NoPane), FailDispatch(c)
          PROVE  Effect
      BY <2>2, FailDispatchEffect DEF Occupies, Active
    <2>. QED  BY <1>11, <2>1, <2>2 DEF AgentExit
  <1>12. ASSUME NEW p \in Panes, PaneRestart(p) \/ RemintHandle(p)  PROVE Effect
    BY <1>0, <1>12 DEF PaneRestart, RemintHandle, tables
  <1>13. ASSUME NEW survivors \in SUBSET alive, AppRestart(survivors)  PROVE Effect
    BY <1>0, <1>13 DEF AppRestart, tables
  <1>. HIDE DEF Effect
  <1>14. Effect
    BY <1>1, <1>2, <1>3, <1>4, <1>5, <1>6, <1>7, <1>8, <1>9, <1>10, <1>11, <1>12, <1>13,
       Zenon DEF Next
  <1>. QED  BY <1>14 DEF Effect

(* promoteReadyTasks misses nobody: the step that completes the last         *)
(* dependency of a waiting task releases it.                                 *)
LEMMA LastDependencyStep ==
    ASSUME TypeOK, [Next]_vars, NEW t \in Tasks, tstatus[t] = "pending",
           NEW d \in deps[t], tstatus[d] # "completed",
           \A e \in deps[t] : tstatus'[e] = "completed"
    PROVE  tstatus'[t] # "pending"
  <1>1. deps[t] \subseteq Tasks /\ d \in Tasks
    BY DEF TypeOK
  <1>2. Next
    BY <1>1 DEF vars
  <1>3. PICK u \in Tasks : UpdateTaskStatus(u, "completed")
    BY <1>1, <1>2, StepEffect DEF CompletesNone, CompletesOne
  <1>. DEFINE st == [tstatus EXCEPT ![u] = "completed"]
  <1>4. tstatus' = PromoteReadyTasks(st, u)
    BY <1>3 DEF UpdateTaskStatus
  <1>5. \A e \in Tasks : tstatus'[e] = "completed" => st[e] = "completed"
    BY <1>4 DEF PromoteReadyTasks
  <1>6. d = u /\ \A e \in deps[t] : st[e] = "completed"
    BY <1>1, <1>5 DEF TypeOK
  <1>7. st[t] = "pending" \/ t = u
    BY DEF TypeOK
  <1>. QED  BY <1>4, <1>6, <1>7 DEF TypeOK, PromoteReadyTasks

(* In every step, a task whose last open dependency is completed stops      *)
(* waiting.                                                                  *)
THEOREM PromotionMissesNobody == Spec => LastDependencyReleases
  <1>1. TypeOK /\ [Next]_vars =>
            [\A t \in Tasks :
                /\ tstatus[t] = "pending"
                /\ \E d \in deps[t] : tstatus[d] # "completed"
                /\ \A d \in deps[t] : tstatus'[d] = "completed"
                => tstatus'[t] # "pending"]_vars
    BY LastDependencyStep
  <1>. QED  BY <1>1, TypeCorrect, PTL DEF Spec, LastDependencyReleases

-----------------------------------------------------------------------------
(* How a child may be stranded: only createTask and a person make it wait    *)

(* The step creates no task whose dependencies are all completed already. *)
NoLateTask ==
    \A t \in Tasks, ds \in SUBSET Tasks :
        CreateTask(t, ds) => ds = {} \/ \E d \in ds : tstatus[d] # "completed"

(* Who waits after the step waited for the same tasks before it. *)
NobodyStartsWaiting ==
    \A t \in Tasks : tstatus'[t] = "pending" => tstatus[t] = "pending" /\ deps'[t] = deps[t]

LEMMA UpdateStartsNoWait ==
    ASSUME TypeOK, NEW t \in Tasks, HasTask(t), NEW s \in TaskStatus, s # "pending",
           UpdateTaskStatus(t, s), UNCHANGED deps
    PROVE  NobodyStartsWaiting
  BY DEF UpdateTaskStatus, PromoteReadyTasks, TypeOK, NobodyStartsWaiting

LEMMA FailureStartsNoWait ==
    ASSUME TypeOK, NEW c \in CtxIds, FailDispatch(c), UNCHANGED deps
    PROVE  NobodyStartsWaiting
  <1>1. PICK s \in {"failed", "ready"} : tstatus' = WithStatus(ctxs[c].task, s)
    BY Zenon DEF FailDispatch
  <1>. QED  BY <1>1, RowTypes DEF WithStatus, TypeOK, NobodyStartsWaiting

LEMMA OnlyCreateMakesWait ==
    ASSUME TypeOK, Next, "pending" \notin OperatorStatuses,
           \A t \in Tasks, ds \in SUBSET Tasks : ~CreateTask(t, ds)
    PROVE  NobodyStartsWaiting
  <1>. USE RowTypes
  <1>0. ASSUME UNCHANGED <<tstatus, deps>>  PROVE NobodyStartsWaiting
    BY <1>0 DEF NobodyStartsWaiting
  <1>1. ASSUME NEW t \in Tasks, NEW ds \in SUBSET Tasks, CreateTask(t, ds)
        PROVE  NobodyStartsWaiting
    BY <1>1
  <1>2. ASSUME NEW t \in Tasks, NEW s \in OperatorStatuses, TaskUpdate(t, s)
        PROVE  NobodyStartsWaiting
    BY <1>2, UpdateStartsNoWait, StatusAssumption DEF TaskUpdate
  <1>3. ASSUME NEW t \in Tasks, NEW h \in Handles, NEW inject \in BOOLEAN,
               DispatchTask(t, h, inject)
        PROVE  NobodyStartsWaiting
    BY <1>3 DEF DispatchTask, CreateDispatchContext, TypeOK, NobodyStartsWaiting
  <1>4. ASSUME NEW c \in sending, PromptSent(c) \/ PromptFailed(c)
        PROVE  NobodyStartsWaiting
    <2>1. c \in CtxIds
      BY <1>4 DEF TypeOK
    <2>2. CASE PromptSent(c)
      BY <1>0, <2>2 DEF PromptSent, tables
    <2>3. CASE PromptFailed(c)
      BY <1>0, <2>1, <2>3, FailureStartsNoWait DEF PromptFailed
    <2>. QED  BY <1>4, <2>2, <2>3
  <1>5. ASSUME NEW t \in Tasks, CreateGate(t)  PROVE NobodyStartsWaiting
    BY <1>5 DEF CreateGate, WithStatus, TypeOK, NobodyStartsWaiting
  <1>6. ASSUME NEW t \in Tasks, HandleEscalation(t)  PROVE NobodyStartsWaiting
    BY <1>6, FailureStartsNoWait DEF HandleEscalation
  <1>7. ASSUME NEW g \in DOMAIN gates, ResolveGate(g)  PROVE NobodyStartsWaiting
    BY <1>7, GateTypes DEF ResolveGate, WithStatus, TypeOK, NobodyStartsWaiting
  <1>8. ASSUME NEW g \in DOMAIN gates, ReblockGatedTask(g)  PROVE NobodyStartsWaiting
    BY <1>8, GateTypes, UpdateStartsNoWait DEF ReblockGatedTask, TaskStatus
  <1>9. ASSUME ResetTasks  PROVE NobodyStartsWaiting
    BY <1>9 DEF ResetTasks, HasTask, TaskStatus, TypeOK, NobodyStartsWaiting
  <1>10. ASSUME NEW t \in Tasks, NEW c \in CtxIds, NEW h \in Handles,
                NEW p \in Panes \cup {NoPane}, WorkerDone(t, c, h, p)
         PROVE  NobodyStartsWaiting
    BY <1>10, UpdateStartsNoWait DEF WorkerDone, HasTask, TaskStatus
  <1>11. ASSUME NEW p \in Panes, AgentExit(p)  PROVE NobodyStartsWaiting
    BY <1>0, <1>11, FailureStartsNoWait DEF AgentExit
  <1>12. ASSUME NEW p \in Panes, PaneRestart(p) \/ RemintHandle(p)
         PROVE  NobodyStartsWaiting
    BY <1>0, <1>12 DEF PaneRestart, RemintHandle, tables
  <1>13. ASSUME NEW survivors \in SUBSET alive, AppRestart(survivors)
         PROVE  NobodyStartsWaiting
    BY <1>0, <1>13 DEF AppRestart, tables
  <1>. QED
    BY <1>1, <1>2, <1>3, <1>4, <1>5, <1>6, <1>7, <1>8, <1>9, <1>10, <1>11, <1>12, <1>13,
       Zenon DEF Next

(* The step creates the task t, which waits only for a task that is open. *)
LEMMA CreateStrandsNobody ==
    ASSUME TypeOK, NoStrandedChild, NoLateTask,
           NEW t \in Tasks, NEW ds \in SUBSET Tasks, CreateTask(t, ds)
    PROVE  NoStrandedChild'
  <1>1. /\ tstatus[t] = "none"
        /\ tstatus' = [tstatus EXCEPT ![t] = IF ds = {} THEN "ready" ELSE "pending"]
        /\ deps' = [deps EXCEPT ![t] = ds]
    BY DEF CreateTask
  <1>2. tstatus'[t] # "completed" /\ \A u \in Tasks \ {t} :
            tstatus'[u] = tstatus[u] /\ deps'[u] = deps[u]
    BY <1>1 DEF TypeOK
  <1>3. \A d \in Tasks : tstatus[d] # "completed" => tstatus'[d] # "completed"
    BY <1>2
  <1>4. CASE ds = {}
    <2>1. tstatus'[t] = "ready"
      BY <1>1, <1>4 DEF TypeOK
    <2>. QED  BY <1>2, <1>3, <2>1 DEF TypeOK, NoStrandedChild
  <1>5. CASE ds # {}
    <2>1. \E d \in ds : tstatus[d] # "completed"
      BY <1>5 DEF NoLateTask
    <2>2. deps'[t] = ds
      BY <1>1 DEF TypeOK
    <2>. QED  BY <1>2, <1>3, <2>1, <2>2 DEF TypeOK, NoStrandedChild
  <1>. QED  BY <1>4, <1>5

(* db.ts: "a completed task never leaves its ready children unpromoted".     *)
(* Among whole operations the only ones that do are those of createTask that *)
(* come too late: when each task is created before its last dependency is    *)
(* completed, and nobody writes `pending' by hand, no sequence of            *)
(* dispatches, failures, gates, exits and resets leaves a task waiting for   *)
(* completed ones.  (AppRestart comes between operations; updateTaskStatus   *)
(* is several commits in the code, and a kill between them is not here.)     *)
THEOREM OnlyLateTasksStrand ==
    ASSUME "pending" \notin OperatorStatuses
    PROVE  Init /\ [][Next /\ NoLateTask]_vars => []NoStrandedChild
  <1>1. Init => IInv /\ NoStrandedChild
    BY InitInv DEF Init, NoStrandedChild
  <1>2. ASSUME IInv, NoStrandedChild, [Next /\ NoLateTask]_vars
        PROVE  IInv' /\ NoStrandedChild'
    <2>0. TypeOK
      BY <1>2 DEF IInv
    <2>1. IInv'
      BY <1>2, NextInv
    <2>2. CASE UNCHANGED vars
      BY <1>2, <2>1, <2>2 DEF vars, NoStrandedChild
    <2>3. ASSUME NEW t \in Tasks, NEW ds \in SUBSET Tasks, CreateTask(t, ds), NoLateTask
          PROVE  NoStrandedChild'
      BY <1>2, <2>0, <2>3, CreateStrandsNobody
    <2>4. ASSUME Next, \A t \in Tasks, ds \in SUBSET Tasks : ~CreateTask(t, ds)
          PROVE  NoStrandedChild'
      <3>1. NobodyStartsWaiting
        BY <2>0, <2>4, OnlyCreateMakesWait
      <3>2. SUFFICES ASSUME NEW t \in Tasks, tstatus'[t] = "pending",
                            \A e \in deps'[t] : tstatus'[e] = "completed"
                     PROVE  FALSE
        BY DEF NoStrandedChild
      <3>3. tstatus[t] = "pending" /\ deps'[t] = deps[t]
        BY <3>1, <3>2 DEF NobodyStartsWaiting
      <3>4. PICK d \in deps[t] : tstatus[d] # "completed"
        BY <1>2, <3>3 DEF NoStrandedChild
      <3>. QED  BY <2>0, <2>4, <3>2, <3>3, <3>4, LastDependencyStep
    <2>. QED  BY <1>2, <2>1, <2>2, <2>3, <2>4
  <1>. QED  BY <1>1, <1>2, PTL

-----------------------------------------------------------------------------
(* The dispatch table implements TerminalLease *)

LEMMA InitLease == Init => Lease!Init
  BY DEF Init, Lease!Init, HeldLeases, CtxIds

(* Retiring rows gives their leases back. *)
LEMMA RetiringReleases ==
    ASSUME TypeOK, RetiresOnly
    PROVE  Lease!Next
  <1>. DEFINE kept == {c \in CtxIds : ctxs'[c].status = "dispatched"}
  <1>1. kept \subseteq DOMAIN HeldLeases
    BY DEF RetiresOnly, HeldLeases, Active
  <1>2. HeldLeases' = [k \in kept |-> HeldLeases[k]]
    BY DEF RetiresOnly, HeldLeases, Active, CtxIds
  <1>3. UNCHANGED CtxIds
    BY DEF RetiresOnly, CtxIds
  <1>4. Lease!Release(kept)
    BY <1>1, <1>2, <1>3 DEF Lease!Release
  <1>. QED  BY <1>1, <1>4 DEF Lease!Next

(* Dispatching takes a lease under the new row's id. *)
LEMMA DispatchGrants ==
    ASSUME TypeOK, NEW t \in Tasks, NEW h \in Handles, NEW inject \in BOOLEAN,
           DispatchTask(t, h, inject)
    PROVE  Lease!Next
  <1>. DEFINE new == Len(ctxs) + 1
              w == [handle |-> h, pane |-> TerminalPaneKey(h)]
  <1>1. /\ new \in 1 .. MaxDispatches
        /\ DOMAIN ctxs' = CtxIds \cup {new}
        /\ \A c \in CtxIds : ctxs'[c] = ctxs[c]
        /\ ctxs'[new].handle = h
        /\ ctxs'[new].pane = TerminalPaneKey(h)
        /\ ctxs'[new].status = "dispatched"
        /\ TerminalPaneKey(h) \in Panes \cup {NoPane}
        /\ \A c \in CtxIds : ~Occupies(c, h, TerminalPaneKey(h))
    BY DispatchTaskStep
  <1>2. new \notin CtxIds
    BY RowTypes
  <1>3. w \in Lease!Terminal
    BY <1>1 DEF Lease!Terminal
  <1>4. \A k \in DOMAIN HeldLeases : ~Lease!SameWorker(HeldLeases[k], w)
    BY <1>1 DEF HeldLeases, Lease!SameWorker, Occupies, Active
  <1>5. HeldLeases' = [k \in DOMAIN HeldLeases \cup {new} |->
                            IF k = new THEN w ELSE HeldLeases[k]]
    BY <1>1, <1>2 DEF HeldLeases, Active, CtxIds
  <1>6. CtxIds' = CtxIds \cup {new}
    BY <1>1 DEF CtxIds
  <1>7. Lease!Grant(new, w)
    BY <1>2, <1>4, <1>5, <1>6 DEF Lease!Grant
  <1>. QED  BY <1>1, <1>3, <1>7 DEF Lease!Next

(* Every behaviour of the tables is a behaviour of the lease: in particular *)
(* no dispatch row is ever revived, and two held leases exclude each other. *)
THEOREM ImplementsLease == Spec => LeaseSpec
  <1>1. ASSUME TypeOK, [Next]_vars
        PROVE  [Lease!Next]_Lease!vars
    <2>1. CASE UNCHANGED vars
      BY <2>1 DEF vars, Lease!vars, HeldLeases, Active, CtxIds
    <2>2. CASE \E t \in Tasks, h \in Handles, inject \in BOOLEAN : DispatchTask(t, h, inject)
      BY <1>1, <2>2, DispatchGrants
    <2>3. CASE /\ Next
               /\ ~(\E t \in Tasks, h \in Handles, inject \in BOOLEAN :
                      DispatchTask(t, h, inject))
      BY <1>1, <2>3, OtherStep, RetiringReleases DEF NoNewDispatch
    <2>. QED  BY <1>1, <2>1, <2>2, <2>3
  <1>. QED  BY <1>1, InitLease, TypeCorrect, PTL DEF Spec, LeaseSpec, Lease!Spec
=============================================================================
