------------------------ MODULE LoneCoordinatorProofs ------------------------
(***************************************************************************)
(* Theorems of CSpec, a coordinator that is alone with its workers: how    *)
(* many tasks it keeps dispatched, and that whoever works is awaited.      *)
(*                                                                         *)
(* Both rest on what one tick may rely on after its awaits.  The slots it  *)
(* counted at the start are still free, because nobody else dispatches;    *)
(* and a task that waits for the answer of its gate is not handed out,     *)
(* because the tick blocks it again before it takes its snapshot.          *)
(***************************************************************************)
EXTENDS CoordinatorProofs

(* The second gate of a task ends what the invariant says of it. *)
OnceGated(t) == \A g, h \in GatesOf(t) : g = h

Newest(c) == \A d \in CtxIds : ctxs[d].task = ctxs[c].task => d <= c

Awaited ==
    \A c \in CtxIds : Active(c) /\ OnceGated(ctxs[c].task) =>
        tstatus[ctxs[c].task] = "dispatched" /\ Newest(c)

(* Nobody resets the tables. *)
NothingDeleted ==
    /\ \A t \in Tasks : tstatus[t] # "deleted"
    /\ \A c \in CtxIds : ctxs[c].status # "deleted"

GatesNamed == \A g \in DOMAIN gates : tstatus[gates[g].task] # "none"

(* Gates that are the only one of their task and wait for their answer. *)
Waiting == {g \in DOMAIN gates : gates[g].status = "pending" /\ OnceGated(gates[g].task)}

GatedIdle == \A g \in Waiting : tstatus[gates[g].task] # "dispatched"

GatedBlocked == \A g \in Waiting : tstatus[gates[g].task] = "blocked"

(* An escalation may unblock a gated task, but only while a loop reads its  *)
(* messages, and the loop blocks it again before it goes on.                *)
Quiet == \A r \in RunIds : loops[r].pc # "messages"

Tables ==
    /\ Awaited
    /\ NothingDeleted
    /\ GatesNamed
    /\ GatedIdle

OneLive ==
    \A q, r \in RunIds : loops[q].pc \notin Ended /\ loops[r].pc \notin Ended => q = r

(* Where a loop works from its snapshot. *)
Dealing == {"list", "create", "next", "probe", "send"}

Reserved(r) == loops[r].slots + (IF loops[r].pc = "probe" THEN 1 ELSE 0)

SlotsLeft ==
    \A r \in RunIds : loops[r].pc \in Dealing =>
        Cardinality(DispatchedTasks) + Reserved(r) <= MaxConcurrent

(* The dispatch whose prompt is awaited is the newest of its task. *)
SendOwns ==
    \A r \in RunIds : loops[r].pc = "send" =>
        /\ loops[r].ctx \in CtxIds
        /\ Newest(loops[r].ctx)
        /\ tstatus[ctxs[loops[r].ctx].task] # "blocked"

AInv ==
    /\ CInv
    /\ RunningRowHasLoop
    /\ OneLive
    /\ Tables
    /\ Quiet => GatedBlocked
    /\ ConcurrencyLimit
    /\ SlotsLeft
    /\ SendOwns

-----------------------------------------------------------------------------
(* What an operation of the tables may disturb: one task *)

(* Gates may come and be answered; they do not go, and keep their task. *)
GatesGrow ==
    /\ DOMAIN gates \subseteq DOMAIN gates'
    /\ \A g \in DOMAIN gates : gates'[g].task = gates[g].task

NoNewPending ==
    /\ DOMAIN gates' = DOMAIN gates
    /\ \A g \in DOMAIN gates :
        /\ gates'[g].task = gates[g].task
        /\ gates'[g].status = "pending" => gates[g].status = "pending"

NobodyBlocked == \A t \in Tasks : tstatus'[t] = "blocked" => tstatus[t] = "blocked"

NobodyDispatched == \A t \in Tasks : tstatus'[t] = "dispatched" => tstatus[t] = "dispatched"

NoActiveRow(t) == \A c \in CtxIds : ctxs[c].task = t => ~Active(c)

LEMMA OnceBefore ==
    ASSUME GatesGrow, NEW t, OnceGated(t)'
    PROVE  OnceGated(t)
  BY DEF GatesGrow, OnceGated, GatesOf

LEMMA NewestIsLast ==
    ASSUME NothingDeleted
    PROVE  /\ \A c \in CtxIds : Newest(c) => IsLast(c, RowsOf(ctxs[c].task))
           /\ \A c, t : IsLast(c, RowsOf(t)) => c \in CtxIds /\ ctxs[c].task = t /\ Newest(c)
  BY DEF NothingDeleted, IsLast, RowsOf, Newest

(* Whoever works is still awaited when an operation leaves the other tasks  *)
(* dispatched and nobody at work on t.                                      *)
LEMMA StillAwaited ==
    ASSUME TypeOK, Awaited, NEW t \in Tasks, RetiresOnly, GatesGrow,
           \A u \in Tasks \ {t} : tstatus[u] = "dispatched" => tstatus'[u] = "dispatched",
           OnceGated(t)' => NoActiveRow(t)'
    PROVE  Awaited'
  <1>. SUFFICES ASSUME NEW c \in CtxIds', Active(c)', OnceGated(ctxs[c].task)'
                PROVE  tstatus'[ctxs'[c].task] = "dispatched" /\ Newest(c)'
    BY DEF Awaited
  <1>1. c \in CtxIds /\ Active(c) /\ ctxs'[c].task = ctxs[c].task
    BY DEF RetiresOnly, Active, CtxIds
  <1>2. ctxs[c].task \in Tasks /\ ctxs[c].task # t
    BY <1>1, RowTypes DEF NoActiveRow
  <1>3. OnceGated(ctxs[c].task)
    BY <1>1, OnceBefore
  <1>4. tstatus[ctxs[c].task] = "dispatched" /\ Newest(c)
    BY <1>1, <1>3 DEF Awaited
  <1>. QED  BY <1>1, <1>2, <1>4 DEF Newest, RetiresOnly, CtxIds

LEMMA StillIdle ==
    ASSUME TypeOK, GatedIdle, NobodyDispatched, NoNewPending
    PROVE  GatedIdle'
  <1>1. Waiting' \subseteq Waiting
    BY OnceBefore DEF Waiting, NoNewPending, GatesGrow
  <1>. QED  BY <1>1, GateTypes DEF GatedIdle, NobodyDispatched, NoNewPending, Waiting

LEMMA StillBlocked ==
    ASSUME TypeOK, GatedBlocked, NEW t \in Tasks, NoNewPending,
           \A u \in Tasks \ {t} : tstatus[u] = "blocked" => tstatus'[u] = "blocked",
           \A g \in Waiting' : gates'[g].task # t
    PROVE  GatedBlocked'
  <1>1. Waiting' \subseteq Waiting
    BY OnceBefore DEF Waiting, NoNewPending, GatesGrow
  <1>. QED  BY <1>1, GateTypes DEF GatedBlocked, NoNewPending, Waiting

(* A task whose only gate waits has nobody at work. *)
LEMMA WaitingHasNoWorker ==
    ASSUME Awaited, GatedIdle, NEW g \in Waiting
    PROVE  NoActiveRow(gates[g].task)
  BY DEF Awaited, GatedIdle, Waiting, NoActiveRow

-----------------------------------------------------------------------------
(* The operations of the tables, one by one *)

(* What an operation is shown to leave behind. *)
TablesAfter == Awaited' /\ NothingDeleted' /\ GatesNamed' /\ GatedIdle' /\ NobodyDispatched

LEMMA SameTables ==
    ASSUME Tables, UNCHANGED <<tstatus, ctxs, gates>>
    PROVE  TablesAfter /\ (GatedBlocked => GatedBlocked')
  BY DEF Tables, TablesAfter, NobodyDispatched, Awaited, NothingDeleted, GatesNamed, GatedIdle,
         GatedBlocked, Waiting, OnceGated, GatesOf, Active, Newest, CtxIds

(* A row fails: it is the newest of its task, or the task was gated often. *)
LEMMA FailKeepsTables ==
    ASSUME TypeOK, Tables, NEW c \in CtxIds, FailDispatch(c), UNCHANGED gates,
           OnceGated(ctxs[c].task) => Newest(c)
    PROVE  /\ TablesAfter
           /\ ~(OnceGated(ctxs[c].task) /\ tstatus[ctxs[c].task] = "blocked")
                => (GatedBlocked => GatedBlocked')
           /\ NobodyBlocked
           /\ RetiresOnly
  <1>0. PICK t \in Tasks : t = ctxs[c].task
    BY RowTypes
  <1>. DEFINE n == IF ctxs[c].failures < FailureLimit THEN ctxs[c].failures + 1 ELSE FailureLimit
              to == IF n = FailureLimit THEN "circuit_broken" ELSE "failed"
              back == IF n = FailureLimit THEN "failed" ELSE "ready"
  <1>1. /\ ctxs' = [ctxs EXCEPT ![c].status = to, ![c].failures = n]
        /\ tstatus' = WithStatus(t, back)
    BY <1>0 DEF FailDispatch
  <1>2. to \in {"circuit_broken", "failed"} /\ back \in {"failed", "ready"}
    OBVIOUS
  <1>3. RetiresOnly
    BY FailDispatchStep DEF NoNewDispatch
  <1>4. /\ ctxs'[c].status = to
        /\ \A d \in CtxIds \ {c} : ctxs'[d] = ctxs[d]
    <2>. HIDE DEF to, n
    <2>. QED  BY <1>1, RowTypes DEF DispatchRow
  <1>. HIDE DEF to, n, back
  <1>5. /\ \A u \in Tasks \ {t} : tstatus'[u] = tstatus[u]
        /\ tstatus'[t] \in {back, tstatus[t]}
        /\ tstatus[t] # "none" => tstatus'[t] = back
    BY <1>1, <1>2 DEF WithStatus, HasTask, TypeOK, Tables, NothingDeleted
  <1>6. GatesGrow /\ NoNewPending
    BY DEF GatesGrow, NoNewPending
  <1>7. NobodyDispatched /\ NobodyBlocked
    BY <1>2, <1>5 DEF NobodyDispatched, NobodyBlocked
  <1>8. ASSUME OnceGated(t)'  PROVE NoActiveRow(t)'
    <2>1. OnceGated(t) /\ Newest(c)
      BY <1>0, <1>6, <1>8, OnceBefore
    <2>. SUFFICES ASSUME NEW d \in CtxIds, ctxs[d].task = t, Active(d), d # c  PROVE FALSE
      BY <1>2, <1>3, <1>4 DEF NoActiveRow, Active, RetiresOnly, CtxIds
    <2>2. Newest(d) /\ ctxs[c].task = t
      BY <1>0, <2>1 DEF Tables, Awaited
    <2>3. c <= d /\ d <= c
      BY <2>1, <2>2 DEF Newest
    <2>. QED  BY <2>3, RowTypes
  <1>9. Awaited'
    BY <1>2, <1>3, <1>5, <1>6, <1>8, StillAwaited DEF Tables
  <1>10. NothingDeleted'
    <2>1. CtxIds' = CtxIds
      BY <1>3 DEF RetiresOnly, CtxIds
    <2>. QED  BY <2>1, <1>2, <1>4, <1>5 DEF Tables, NothingDeleted
  <1>11. GatesNamed'
    BY <1>2, <1>5, GateTypes DEF Tables, GatesNamed
  <1>12. GatedIdle'
    BY <1>6, <1>7, StillIdle DEF Tables
  <1>13. ASSUME ~(OnceGated(t) /\ tstatus[t] = "blocked"), GatedBlocked  PROVE GatedBlocked'
    <2>1. Waiting' = Waiting
      BY DEF Waiting, OnceGated, GatesOf
    <2>2. \A g \in Waiting' : gates'[g].task # t
      BY <1>13, <2>1 DEF Waiting, GatedBlocked
    <2>. QED  BY <1>2, <1>5, <1>6, <1>13, <2>2, StillBlocked
  <1>. QED  BY <1>0, <1>3, <1>7, <1>9, <1>10, <1>11, <1>12, <1>13 DEF TablesAfter

(* Completing the newest active row of a task leaves nobody at work on it. *)
LEMMA CompleteLeavesNobody ==
    ASSUME TypeOK, Tables, NEW t \in Tasks, ctxs' = CompleteActiveDispatchForTask(t)
    PROVE  /\ RetiresOnly
           /\ OnceGated(t) => NoActiveRow(t)'
           /\ \A c \in CtxIds : ctxs'[c].status # "deleted"
  <1>1. RetiresOnly
    BY CompleteActiveRows
  <1>2. \A c \in CtxIds : \/ ctxs'[c] = ctxs[c] /\ ~IsLast(c, ActiveFor(t))
                          \/ ctxs'[c].status = "completed"
    BY RowTypes DEF CompleteActiveDispatchForTask, DispatchRow
  <1>3. ASSUME OnceGated(t), NEW c \in CtxIds, ctxs'[c].task = t, Active(c)'  PROVE FALSE
    <2>1. Active(c) /\ ctxs[c].task = t /\ ~IsLast(c, ActiveFor(t))
      BY <1>1, <1>2, <1>3 DEF RetiresOnly, Active
    <2>2. Newest(c)
      BY <1>3, <2>1 DEF Tables, Awaited
    <2>. QED  BY <2>1, <2>2 DEF Newest, IsLast, ActiveFor, RowsOf, Tables, NothingDeleted
  <1>4. OnceGated(t) => NoActiveRow(t)'
    BY <1>1, <1>3 DEF NoActiveRow, RetiresOnly, CtxIds, Active
  <1>. QED  BY <1>1, <1>2, <1>4 DEF Tables, NothingDeleted

(* A report is accepted: the task of the row is dispatched. *)
LEMMA DoneKeepsTables ==
    ASSUME TypeOK, Tables, NEW t \in Tasks, tstatus[t] = "dispatched",
           UpdateTaskStatus(t, "completed"), UNCHANGED gates
    PROVE  TablesAfter /\ NobodyBlocked /\ RetiresOnly /\ (GatedBlocked => GatedBlocked')
  <1>1. /\ ctxs' = CompleteActiveDispatchForTask(t)
        /\ tstatus' = PromoteReadyTasks([tstatus EXCEPT ![t] = "completed"], t)
    BY DEF UpdateTaskStatus
  <1>2. /\ RetiresOnly
        /\ OnceGated(t) => NoActiveRow(t)'
        /\ \A c \in CtxIds : ctxs'[c].status # "deleted"
    BY <1>1, CompleteLeavesNobody
  <1>3. \A u \in Tasks : \/ tstatus'[u] = tstatus[u] /\ u # t
                         \/ u = t /\ tstatus'[u] = "completed"
                         \/ u # t /\ tstatus[u] = "pending" /\ tstatus'[u] = "ready"
    BY <1>1 DEF PromoteReadyTasks, TypeOK
  <1>4. GatesGrow /\ NoNewPending /\ NobodyDispatched /\ NobodyBlocked
    BY <1>3 DEF GatesGrow, NoNewPending, NobodyDispatched, NobodyBlocked
  <1>5. Awaited'
    BY <1>2, <1>3, <1>4, OnceBefore, StillAwaited DEF Tables
  <1>6. NothingDeleted'
    BY <1>2, <1>3 DEF Tables, NothingDeleted, RetiresOnly, CtxIds
  <1>7. GatesNamed'
    BY <1>3, GateTypes DEF Tables, GatesNamed
  <1>8. GatedIdle'
    BY <1>4, StillIdle DEF Tables
  <1>9. ASSUME GatedBlocked  PROVE GatedBlocked'
    <2>1. Waiting' = Waiting
      BY DEF Waiting, OnceGated, GatesOf
    <2>2. \A g \in Waiting' : gates'[g].task # t
      BY <1>9, <2>1 DEF Waiting, GatedBlocked
    <2>. QED  BY <1>3, <1>4, <1>9, <2>2, StillBlocked
  <1>. QED  BY <1>2, <1>4, <1>5, <1>6, <1>7, <1>8, <1>9 DEF TablesAfter

(* A gate is opened for a task that exists. *)
LEMMA GateKeepsTables ==
    ASSUME TypeOK, Tables, NEW t \in Tasks, CreateGate(t)
    PROVE  TablesAfter /\ RetiresOnly
  <1>. DEFINE gate == [task |-> t, status |-> "pending"]
              new == Len(gates) + 1
  <1>1. /\ ctxs' = CompleteActiveDispatchForTask(t)
        /\ tstatus' = WithStatus(t, "blocked")
        /\ gates' = Append(gates, gate)
        /\ tstatus[t] # "none"
    BY DEF CreateGate
  <1>2. /\ RetiresOnly
        /\ OnceGated(t) => NoActiveRow(t)'
        /\ \A c \in CtxIds : ctxs'[c].status # "deleted"
    BY <1>1, CompleteLeavesNobody
  <1>3. /\ \A u \in Tasks \ {t} : tstatus'[u] = tstatus[u]
        /\ tstatus'[t] = "blocked"
    BY <1>1 DEF WithStatus, HasTask, TypeOK, Tables, NothingDeleted
  <1>4. /\ DOMAIN gates' = DOMAIN gates \cup {new}
        /\ gates'[new] = gate
        /\ \A g \in DOMAIN gates : gates'[g] = gates[g]
    <2>1. gate \in GateRow /\ gates \in Seq(GateRow)
      BY DEF GateRow, TypeOK
    <2>2. gates' \in Seq(GateRow) /\ Len(gates') = new
      BY <1>1, <2>1, AppendProperties
    <2>3. DOMAIN gates' = 1 .. new /\ DOMAIN gates = 1 .. Len(gates) /\ Len(gates) \in Nat
      BY <2>1, <2>2, LenProperties
    <2>. HIDE DEF gate
    <2>. QED  BY <1>1, <2>1, <2>3, AppendProperties
  <1>5. GatesGrow /\ NobodyDispatched
    BY <1>3, <1>4 DEF GatesGrow, NobodyDispatched
  <1>6. Awaited'
    BY <1>2, <1>3, <1>5, OnceBefore, StillAwaited DEF Tables
  <1>7. NothingDeleted'
    BY <1>2, <1>3 DEF Tables, NothingDeleted, RetiresOnly, CtxIds
  <1>8. GatesNamed'
    BY <1>1, <1>3, <1>4, GateTypes DEF Tables, GatesNamed
  <1>9. GatedIdle'
    <2>. SUFFICES ASSUME NEW g \in Waiting'  PROVE tstatus'[gates'[g].task] # "dispatched"
      BY DEF GatedIdle
    <2>1. CASE g = new
      BY <1>3, <1>4, <2>1
    <2>2. CASE g # new
      <3>1. g \in DOMAIN gates /\ gates'[g] = gates[g]
        BY <1>4, <2>2 DEF Waiting
      <3>2. g \in Waiting
        BY <1>5, <3>1, OnceBefore DEF Waiting
      <3>. QED  BY <1>5, <3>1, <3>2, GateTypes DEF Tables, GatedIdle, NobodyDispatched
    <2>. QED  BY <2>1, <2>2
  <1>. QED  BY <1>2, <1>5, <1>6, <1>7, <1>8, <1>9 DEF TablesAfter

(* A person answers a waiting gate. *)
LEMMA AnswerKeepsTables ==
    ASSUME TypeOK, Tables, NEW g \in DOMAIN gates, gates[g].status = "pending", ResolveGate(g)
    PROVE  TablesAfter /\ NobodyBlocked /\ RetiresOnly /\ (GatedBlocked => GatedBlocked')
  <1>0. PICK t \in Tasks : t = gates[g].task
    BY GateTypes
  <1>1. /\ gates' = [gates EXCEPT ![g].status = "resolved"]
        /\ tstatus' = WithStatus(t, "ready")
        /\ UNCHANGED ctxs
    BY <1>0 DEF ResolveGate
  <1>2. /\ DOMAIN gates' = DOMAIN gates
        /\ gates'[g].task = t /\ gates'[g].status = "resolved"
        /\ \A h \in DOMAIN gates \ {g} : gates'[h] = gates[h]
    BY <1>0, <1>1, GateTypes DEF GateRow
  <1>3. GatesGrow /\ NoNewPending
    BY <1>0, <1>2 DEF GatesGrow, NoNewPending
  <1>4. /\ \A u \in Tasks \ {t} : tstatus'[u] = tstatus[u]
        /\ tstatus'[t] = "ready"
    BY <1>0, <1>1 DEF WithStatus, HasTask, TypeOK, Tables, NothingDeleted, GatesNamed
  <1>5. NobodyDispatched /\ NobodyBlocked /\ RetiresOnly
    BY <1>1, <1>4 DEF NobodyDispatched, NobodyBlocked, RetiresOnly
  <1>6. ASSUME OnceGated(t)'  PROVE NoActiveRow(t)'
    <2>1. g \in Waiting
      BY <1>0, <1>3, <1>6, OnceBefore DEF Waiting
    <2>2. NoActiveRow(t)
      BY <1>0, <2>1, WaitingHasNoWorker DEF Tables
    <2>. QED  BY <1>1, <2>2 DEF NoActiveRow, Active, CtxIds
  <1>7. Awaited'
    BY <1>3, <1>4, <1>5, <1>6, StillAwaited DEF Tables
  <1>8. NothingDeleted'
    BY <1>1, <1>4 DEF Tables, NothingDeleted, CtxIds
  <1>9. GatesNamed'
    BY <1>3, <1>4, GateTypes DEF Tables, GatesNamed, NoNewPending
  <1>10. GatedIdle'
    BY <1>3, <1>5, StillIdle DEF Tables
  <1>11. ASSUME GatedBlocked  PROVE GatedBlocked'
    <2>1. ASSUME NEW h \in Waiting', gates'[h].task = t  PROVE FALSE
      <3>1. h # g
        BY <1>2, <2>1 DEF Waiting
      <3>. QED  BY <1>2, <2>1, <3>1 DEF Waiting, OnceGated, GatesOf
    <2>. QED  BY <1>3, <1>4, <1>11, <2>1, StillBlocked
  <1>. QED  BY <1>5, <1>7, <1>8, <1>9, <1>10, <1>11 DEF TablesAfter

(* The coordinator blocks a task again whose gate still waits. *)
LEMMA ReblockKeepsTables ==
    ASSUME TypeOK, Tables, NEW g \in DOMAIN gates, ReblockGatedTask(g)
    PROVE  TablesAfter /\ RetiresOnly
  <1>0. PICK t \in Tasks : t = gates[g].task
    BY GateTypes
  <1>1. /\ gates[g].status = "pending"
        /\ tstatus' = [tstatus EXCEPT ![t] = "blocked"]
        /\ UNCHANGED <<ctxs, gates>>
    BY <1>0 DEF ReblockGatedTask, UpdateTaskStatus
  <1>2. /\ \A u \in Tasks \ {t} : tstatus'[u] = tstatus[u]
        /\ tstatus'[t] = "blocked"
    BY <1>1 DEF TypeOK
  <1>3. GatesGrow /\ NoNewPending /\ NobodyDispatched /\ RetiresOnly
    BY <1>1, <1>2 DEF GatesGrow, NoNewPending, NobodyDispatched, RetiresOnly
  <1>4. ASSUME OnceGated(t)'  PROVE NoActiveRow(t)'
    <2>1. g \in Waiting
      BY <1>0, <1>1, <1>3, <1>4, OnceBefore DEF Waiting
    <2>2. NoActiveRow(t)
      BY <1>0, <2>1, WaitingHasNoWorker DEF Tables
    <2>. QED  BY <1>1, <2>2 DEF NoActiveRow, Active, CtxIds
  <1>5. Awaited'
    BY <1>2, <1>3, <1>4, StillAwaited DEF Tables
  <1>6. NothingDeleted'
    BY <1>1, <1>2 DEF Tables, NothingDeleted, CtxIds
  <1>7. GatesNamed'
    BY <1>1, <1>2, GateTypes DEF Tables, GatesNamed
  <1>8. GatedIdle'
    BY <1>3, StillIdle DEF Tables
  <1>. QED  BY <1>3, <1>5, <1>6, <1>7, <1>8 DEF TablesAfter

(* A task is added: it had no rows at work and no gates. *)
LEMMA CreateKeepsTables ==
    ASSUME TypeOK, Tables, NEW t \in Tasks, NEW ds \in SUBSET Tasks, CreateTask(t, ds)
    PROVE  TablesAfter /\ NobodyBlocked /\ RetiresOnly /\ (GatedBlocked => GatedBlocked')
  <1>1. /\ tstatus[t] = "none" /\ tstatus'[t] \in {"ready", "pending"}
        /\ \A u \in Tasks \ {t} : tstatus'[u] = tstatus[u]
        /\ UNCHANGED <<ctxs, gates>>
    BY DEF CreateTask, TypeOK
  <1>2. /\ GatesGrow /\ NoNewPending /\ NobodyDispatched /\ NobodyBlocked /\ RetiresOnly
    BY <1>1 DEF GatesGrow, NoNewPending, NobodyDispatched, NobodyBlocked, RetiresOnly
  <1>3. OnceGated(t)' => NoActiveRow(t)'
    <2>1. OnceGated(t) => NoActiveRow(t)
      BY <1>1 DEF Tables, Awaited, NoActiveRow
    <2>. QED  BY <1>1, <1>2, <2>1, OnceBefore DEF NoActiveRow, Active, CtxIds
  <1>4. Awaited'
    BY <1>1, <1>2, <1>3, StillAwaited DEF Tables
  <1>5. NothingDeleted'
    BY <1>1 DEF Tables, NothingDeleted, CtxIds
  <1>6. GatesNamed'
    BY <1>1, GateTypes DEF Tables, GatesNamed
  <1>7. GatedIdle'
    BY <1>2, StillIdle DEF Tables
  <1>8. \A g \in Waiting' : gates'[g].task # t
    BY <1>1 DEF Waiting, Tables, GatesNamed
  <1>9. GatedBlocked => GatedBlocked'
    BY <1>1, <1>2, <1>8, StillBlocked
  <1>. QED  BY <1>2, <1>4, <1>5, <1>6, <1>7, <1>9 DEF TablesAfter

(* A task is dispatched while every waiting gate blocks its task. *)
LEMMA DispatchKeepsTables ==
    ASSUME TypeOK, Tables, GatedBlocked, NEW t \in Tasks, NEW h \in Handles,
           NEW inject \in BOOLEAN, DispatchTask(t, h, inject)
    PROVE  /\ Tables' /\ GatedBlocked'
           /\ \A c : c = Len(ctxs) + 1 => c \in CtxIds' /\ Newest(c)' /\ ctxs'[c].task = t
           /\ t \notin DispatchedTasks /\ DispatchedTasks' = DispatchedTasks \cup {t}
  <1>. DEFINE new == Len(ctxs) + 1
  <1>1. /\ DOMAIN ctxs' = CtxIds \cup {new}
        /\ \A c \in CtxIds : ctxs'[c] = ctxs[c]
        /\ ctxs'[new].task = t /\ ctxs'[new].status = "dispatched"
        /\ tstatus' = [tstatus EXCEPT ![t] = "dispatched"]
    BY DispatchTaskStep
  <1>2. tstatus[t] = "ready" /\ UNCHANGED gates
    BY DEF DispatchTask, CreateDispatchContext
  <1>3. CtxIds = 1 .. Len(ctxs) /\ Len(ctxs) \in Nat
    BY RowTypes
  <1>4. new \in CtxIds' /\ \A c \in CtxIds' : c <= new
    BY <1>1, <1>3 DEF CtxIds
  <1>5. /\ \A u \in Tasks \ {t} : tstatus'[u] = tstatus[u]
        /\ tstatus'[t] = "dispatched"
    BY <1>1 DEF TypeOK
  <1>. HIDE DEF new
  <1>6. Awaited'
    <2>. SUFFICES ASSUME NEW c \in CtxIds', Active(c)', OnceGated(ctxs[c].task)'
                  PROVE  tstatus'[ctxs'[c].task] = "dispatched" /\ Newest(c)'
      BY DEF Awaited
    <2>1. CASE c = new
      BY <1>1, <1>4, <1>5, <2>1 DEF Newest
    <2>2. CASE c # new
      <3>1. c \in CtxIds /\ ctxs'[c] = ctxs[c] /\ Active(c) /\ ctxs[c].task \in Tasks
        BY <1>1, <2>2, RowTypes DEF CtxIds, Active
      <3>2. OnceGated(ctxs[c].task)
        BY <1>2, <3>1 DEF OnceGated, GatesOf
      <3>3. tstatus[ctxs[c].task] = "dispatched" /\ Newest(c)
        BY <3>1, <3>2 DEF Tables, Awaited
      <3>4. ctxs[c].task # t
        BY <1>2, <3>3
      <3>5. ASSUME NEW d \in CtxIds', ctxs'[d].task = ctxs'[c].task  PROVE d <= c
        <4>1. d \in CtxIds /\ ctxs'[d] = ctxs[d]
          BY <1>1, <3>1, <3>4, <3>5 DEF CtxIds
        <4>. QED  BY <3>1, <3>3, <3>5, <4>1 DEF Newest
      <3>6. Newest(c)'
        BY <3>5 DEF Newest
      <3>7. tstatus'[ctxs'[c].task] = "dispatched"
        BY <1>5, <3>1, <3>3, <3>4
      <3>. QED  BY <3>6, <3>7
    <2>. QED  BY <2>1, <2>2
  <1>7. NothingDeleted'
    BY <1>1, <1>5 DEF Tables, NothingDeleted, CtxIds
  <1>8. GatesNamed'
    BY <1>2, <1>5, GateTypes DEF Tables, GatesNamed
  <1>9. GatedBlocked' /\ GatedIdle'
    <2>1. Waiting' = Waiting
      BY <1>2 DEF Waiting, OnceGated, GatesOf
    <2>2. GatedBlocked'
      BY <1>2, <1>5, <2>1, GateTypes DEF GatedBlocked, Waiting
    <2>. QED  BY <2>2 DEF GatedBlocked, GatedIdle
  <1>10. t \notin DispatchedTasks /\ DispatchedTasks' = DispatchedTasks \cup {t}
    BY <1>2, <1>5 DEF DispatchedTasks
  <1>11. ASSUME NEW c, c = new  PROVE c \in CtxIds' /\ Newest(c)' /\ ctxs'[c].task = t
    BY <1>1, <1>4, <1>11 DEF Newest
  <1>. QED  BY <1>6, <1>7, <1>8, <1>9, <1>10, <1>11 DEF Tables, new

-----------------------------------------------------------------------------
(* How many tasks are dispatched *)

LEMMA CountIsNat ==
    Cardinality(DispatchedTasks) \in Nat /\ IsFiniteSet(DispatchedTasks)
  BY TasksAssumption, FS_Subset, FS_CardinalityType DEF DispatchedTasks

LEMMA NoMoreDispatched ==
    ASSUME NobodyDispatched
    PROVE  /\ Cardinality(DispatchedTasks)' \in Nat
           /\ Cardinality(DispatchedTasks)' <= Cardinality(DispatchedTasks)
  <1>1. DispatchedTasks' \subseteq DispatchedTasks
    BY DEF DispatchedTasks, NobodyDispatched
  <1>. QED  BY <1>1, CountIsNat, FS_Subset, FS_CardinalityType

-----------------------------------------------------------------------------
(* The turn of a loop: the other loops are over *)

Turn(r) ==
    /\ RunIds' = RunIds
    /\ loops[r].pc \notin Ended
    /\ \A q \in RunIds \ {r} : loops[q].pc \in Ended /\ loops'[q] = loops[q]
    /\ loops'[r] \in Loop

LEMMA LoopStepIsTurn ==
    ASSUME CInv, OneLive, NEW r \in RunIds, LoopStep(r)
    PROVE  Turn(r) /\ OneLive'
  <1>1. LoopMoves(r)
    BY LoopStepMoves
  <1>2. PICK l \in Loop :
            /\ loops' = [loops EXCEPT ![r] = l]
            /\ UNCHANGED runs \/ EndRun(r)
    BY <1>1 DEF LoopMoves
  <1>3. RunIds' = RunIds
    BY <1>2, LoopTypes DEF EndRun, RunIds, CInv
  <1>4. loops'[r] = l /\ \A q \in RunIds \ {r} : loops'[q] = loops[q]
    <2>1. DOMAIN loops = RunIds
      BY LoopTypes DEF CInv
    <2>. QED  BY <1>2, <2>1
  <1>. QED  BY <1>1, <1>3, <1>4 DEF Turn, OneLive, LoopMoves

(* What has to be shown of the loop whose turn it is. *)
LEMMA TurnKeepsLoops ==
    ASSUME NEW r \in RunIds, Turn(r),
           loops'[r].pc \in Dealing =>
                Cardinality(DispatchedTasks)' + Reserved(r)' <= MaxConcurrent,
           loops'[r].pc = "send" =>
                /\ loops'[r].ctx \in CtxIds'
                /\ \A d \in CtxIds' : ctxs'[d].task = ctxs'[loops'[r].ctx].task
                                        => d <= loops'[r].ctx
                /\ tstatus'[ctxs'[loops'[r].ctx].task] # "blocked",
           loops'[r].pc # "messages" => GatedBlocked'
    PROVE  SlotsLeft' /\ SendOwns' /\ (Quiet => GatedBlocked)'
  <1>1. \A q \in RunIds \ {r} : loops'[q].pc \in Ended
    BY DEF Turn
  <1>2. SlotsLeft'
    BY <1>1 DEF SlotsLeft, Turn, Dealing, Ended
  <1>3. SendOwns'
    BY <1>1 DEF SendOwns, Newest, Turn, Ended
  <1>4. (Quiet => GatedBlocked)'
    BY <1>1 DEF Quiet, Turn
  <1>. QED  BY <1>2, <1>3, <1>4

(* While loop r is elsewhere than at its messages, waiting gates block. *)
LEMMA ElsewhereBlocked ==
    ASSUME AInv, NEW r \in RunIds, Turn(r), loops[r].pc # "messages"
    PROVE  GatedBlocked
  BY DEF AInv, Quiet, Turn, Ended

(* What a step of the coordinator has to keep, beside CInv and the runs. *)
AloneAfter ==
    /\ OneLive'
    /\ Tables'
    /\ (Quiet => GatedBlocked)'
    /\ ConcurrencyLimit'
    /\ SlotsLeft'
    /\ SendOwns'

LEMMA TablesAgain == TablesAfter => Tables'
  BY DEF TablesAfter, Tables

LEMMA LimitAgain ==
    ASSUME ConcurrencyLimit, NobodyDispatched
    PROVE  ConcurrencyLimit'
  BY NoMoreDispatched, CountIsNat, LoopBoundsAssumption DEF ConcurrencyLimit

(* A turn that leaves the tables alone, away from the messages. *)
LEMMA CalmTurn ==
    ASSUME AInv, NEW r \in RunIds, Turn(r), OneLive',
           UNCHANGED <<tstatus, ctxs, gates>>, loops[r].pc # "messages",
           \/ loops'[r].pc \notin Dealing
           \/ /\ loops[r].pc \in Dealing /\ loops'[r].pc \in Dealing \ {"send"}
              /\ Reserved(r)' <= Reserved(r) /\ Reserved(r)' \in Nat /\ Reserved(r) \in Nat
    PROVE  AloneAfter
  <1>1. TablesAfter /\ GatedBlocked'
    BY SameTables, ElsewhereBlocked DEF AInv
  <1>2. ConcurrencyLimit'
    BY <1>1, LimitAgain DEF TablesAfter, AInv
  <1>3. loops'[r].pc \in Dealing =>
            Cardinality(DispatchedTasks)' + Reserved(r)' <= MaxConcurrent
    <2>. SUFFICES ASSUME loops'[r].pc \in Dealing
                  PROVE  Cardinality(DispatchedTasks)' + Reserved(r)' <= MaxConcurrent
      OBVIOUS
    <2>1. Cardinality(DispatchedTasks) + Reserved(r) <= MaxConcurrent
      BY DEF AInv, SlotsLeft
    <2>2. /\ Cardinality(DispatchedTasks)' \in Nat
          /\ Cardinality(DispatchedTasks)' <= Cardinality(DispatchedTasks)
      BY <1>1, NoMoreDispatched DEF TablesAfter
    <2>. QED  BY <2>1, <2>2, CountIsNat, LoopBoundsAssumption
  <1>4. loops'[r].pc # "send"
    BY DEF Dealing
  <1>. QED  BY <1>1, <1>2, <1>3, <1>4, TurnKeepsLoops, TablesAgain DEF AloneAfter

-----------------------------------------------------------------------------
(* The steps of the loop *)

(* A report, at its send or from the mailbox: completed, or not accepted. *)
LEMMA ReportKeepsTables ==
    ASSUME TypeOK, Tables, NEW c, ReconcileWorkerDone(c)
    PROVE  TablesAfter /\ (GatedBlocked => GatedBlocked') /\ NobodyBlocked /\ RetiresOnly
  <1>1. CASE Accepts(c)
    <2>1. c \in CtxIds /\ tstatus[ctxs[c].task] = "dispatched"
      BY <1>1 DEF Accepts, RowsOf
    <2>2. UpdateTaskStatus(ctxs[c].task, "completed") /\ UNCHANGED gates
      BY <1>1 DEF ReconcileWorkerDone, WorkerDone
    <2>. QED  BY <2>1, <2>2, RowTypes, DoneKeepsTables
  <1>2. CASE ~Accepts(c)
    <2>1. UNCHANGED <<tstatus, ctxs, gates>>
      BY <1>2 DEF ReconcileWorkerDone, vars
    <2>. QED  BY <2>1, SameTables DEF NobodyBlocked, RetiresOnly
  <1>. QED  BY <1>1, <1>2

(* Reading messages may unblock a gated task; the loop is still at it. *)
LEMMA MessagesKeepAlone ==
    ASSUME AInv, NEW r \in RunIds, Turn(r), OneLive',
           \/ ProcessMessage(r)
           \/ \E g \in DOMAIN gates : ProcessDecisionGate(r, g)
    PROVE  AloneAfter
  <1>. USE DEF AInv, CInv
  <1>1. loops'[r].pc = "messages"
    <2>1. CASE ProcessMessage(r)
      BY <2>1, LoopTypes DEF ProcessMessage, At, Loop
    <2>2. ASSUME NEW g \in DOMAIN gates, ProcessDecisionGate(r, g)  PROVE loops'[r].pc = "messages"
      BY <2>2 DEF ProcessDecisionGate, At, coordination
    <2>. QED  BY <2>1, <2>2
  <1>2. TablesAfter
    <2>1. CASE ProcessMessage(r)
      <3>1. Head(inbox).task \in Tasks
        <4>1. Head(inbox) \in Message
          BY <2>1, HeadTailProperties DEF ProcessMessage, CTypeOK
        <4>. QED  BY <4>1 DEF Message
      <3>2. CASE ReconcileWorkerDone(Head(inbox).ctx)
        BY <3>2, ReportKeepsTables
      <3>3. CASE CreateGate(Head(inbox).task)
        BY <3>1, <3>3, GateKeepsTables
      <3>4. CASE HandleEscalation(Head(inbox).task)
        <4>1. PICK c \in CtxIds : IsLast(c, RowsOf(Head(inbox).task)) /\ FailDispatch(c)
          BY <3>4 DEF HandleEscalation
        <4>2. Newest(c) /\ UNCHANGED gates
          BY <3>4, <4>1, NewestIsLast DEF HandleEscalation, Tables
        <4>. QED  BY <4>1, <4>2, FailKeepsTables
      <3>5. CASE UNCHANGED vars
        BY <3>5, SameTables DEF vars
      <3>. QED  BY <2>1, <3>2, <3>3, <3>4, <3>5 DEF ProcessMessage
    <2>2. ASSUME NEW g \in DOMAIN gates, ProcessDecisionGate(r, g)  PROVE TablesAfter
      BY <2>2, ReblockKeepsTables DEF ProcessDecisionGate
    <2>. QED  BY <2>1, <2>2
  <1>3. ConcurrencyLimit'
    BY <1>2, LimitAgain DEF TablesAfter
  <1>. QED  BY <1>1, <1>2, <1>3, TurnKeepsLoops, TablesAgain DEF AloneAfter, Dealing

(* The snapshot is taken when no waiting gate is left unblocked. *)
LEMMA SnapshotKeepsAlone ==
    ASSUME AInv, NEW r \in RunIds, Turn(r), OneLive', TakeSnapshot(r)
    PROVE  AloneAfter
  <1>. USE DEF AInv, CInv
  <1>. DEFINE ready == {t \in Tasks : tstatus[t] = "ready"}
              busy == Cardinality(DispatchedTasks)
              room == IF busy < MaxConcurrent THEN MaxConcurrent - busy ELSE 0
  <1>1. /\ UNCHANGED <<tstatus, ctxs, gates>>
        /\ ~\E g \in DOMAIN gates : Unblocked(g)
        /\ \/ Goto(r, "converge")
           \/ /\ room # 0
              /\ loops' = [loops EXCEPT ![r].todo = ready, ![r].slots = room, ![r].pc = "list"]
    BY DEF TakeSnapshot, vars, Goto
  <1>2. GatedBlocked
    <2>. SUFFICES ASSUME NEW g \in Waiting  PROVE tstatus[gates[g].task] = "blocked"
      BY DEF GatedBlocked
    <2>1. g \in DOMAIN gates /\ gates[g].status = "pending" /\ gates[g].task \in Tasks
      BY GateTypes DEF Waiting
    <2>2. HasTask(gates[g].task)
      BY <2>1 DEF HasTask, TypeOK, Tables, NothingDeleted, GatesNamed
    <2>. QED  BY <1>1, <2>1, <2>2 DEF Unblocked
  <1>3. TablesAfter /\ GatedBlocked'
    BY <1>1, <1>2, SameTables
  <1>4. ConcurrencyLimit'
    BY <1>3, LimitAgain DEF TablesAfter
  <1>5. /\ loops'[r].pc \in {"converge", "list"}
        /\ loops'[r].pc = "list" => room # 0 /\ loops'[r].slots = room
    <2>. HIDE DEF ready, room
    <2>. QED  BY <1>1, LoopTypes DEF Goto, Loop
  <1>6. loops'[r].pc \in Dealing => Cardinality(DispatchedTasks)' + Reserved(r)' <= MaxConcurrent
    <2>. SUFFICES ASSUME loops'[r].pc \in Dealing
                  PROVE  Cardinality(DispatchedTasks)' + Reserved(r)' <= MaxConcurrent
      OBVIOUS
    <2>1. Reserved(r)' = room + 0 /\ room # 0
      BY <1>5 DEF Reserved, Dealing
    <2>2. Cardinality(DispatchedTasks)' = busy
      BY <1>1 DEF DispatchedTasks
    <2>3. busy \in Nat
      BY CountIsNat
    <2>. HIDE DEF busy
    <2>. QED  BY <2>1, <2>2, <2>3, LoopBoundsAssumption
  <1>. QED  BY <1>3, <1>4, <1>5, <1>6, TurnKeepsLoops, TablesAgain DEF AloneAfter

(* What a loop reserves is a number. *)
LEMMA ReservedIsNat ==
    ASSUME CInv, NEW r \in RunIds
    PROVE  loops[r].slots \in Nat /\ Reserved(r) \in Nat
  <1>1. loops[r].slots \in 0 .. MaxConcurrent
    BY LoopFields DEF CInv
  <1>. QED  BY <1>1, LoopBoundsAssumption DEF Reserved

(* Handing out: terminals, the pick, and the awaits that come to nothing. *)
LEMMA DealKeepsAlone ==
    ASSUME AInv, NEW r \in RunIds, Turn(r), OneLive',
           \/ \E targets \in {LiveHandles \ BusyHandles, {}} : ListTerminals(r, targets)
           \/ CreateTerminal(r) \/ CreateTerminalFails(r)
           \/ PickTask(r) \/ NothingToPick(r)
           \/ SkipStaleBase(r) \/ DispatchRefused(r) \/ LoopPromptSent(r)
    PROVE  AloneAfter
  <1>. USE DEF AInv
  <1>0. /\ loops[r].slots \in Nat /\ Reserved(r) \in Nat
        /\ loops[r] \in Loop /\ DOMAIN loops = RunIds
    BY ReservedIsNat, LoopTypes DEF CInv
  <1>1. UNCHANGED <<tstatus, ctxs, gates>>
    BY DEF ListTerminals, CreateTerminal, PaneRestart, CreateTerminalFails, PickTask,
           NothingToPick, SkipStaleBase, DispatchRefused, LoopPromptSent, PromptSent, vars, tables
  <1>2. loops[r].pc \in Dealing
    BY DEF ListTerminals, CreateTerminal, CreateTerminalFails, PickTask, NothingToPick,
           SkipStaleBase, DispatchRefused, LoopPromptSent, At, Dealing
  <1>. DEFINE Kept == /\ loops'[r].pc \in {"create", "next"}
                      /\ loops'[r].slots = loops[r].slots
              Picked == /\ loops[r].pc = "next" /\ loops'[r].pc = "probe"
                        /\ loops[r].slots > 0 /\ loops'[r].slots = loops[r].slots - 1
              Left == loops'[r].pc = "converge"
  <1>3. ASSUME NEW targets, ListTerminals(r, targets)  PROVE Kept
    BY <1>0, <1>3 DEF ListTerminals, Loop
  <1>4. ASSUME CreateTerminal(r)  PROVE Kept
    BY <1>0, <1>4 DEF CreateTerminal, Loop
  <1>5. ASSUME CreateTerminalFails(r) \/ NothingToPick(r)  PROVE Left
    BY <1>0, <1>5 DEF CreateTerminalFails, NothingToPick, Goto, Loop
  <1>6. ASSUME PickTask(r)  PROVE Picked
    <2>1. PICK t \in loops[r].todo, h \in loops[r].targets :
            loops' = [loops EXCEPT ![r].todo = @ \ {t}, ![r].targets = @ \ {h},
                                   ![r].slots = @ - 1, ![r].job = <<t, h>>, ![r].pc = "probe"]
      BY <1>6 DEF PickTask
    <2>2. loops'[r].pc = "probe" /\ loops'[r].slots = loops[r].slots - 1
      BY <1>0, <2>1 DEF Loop
    <2>. QED  BY <1>6, <2>2 DEF PickTask, At
  <1>7. ASSUME SkipStaleBase(r) \/ DispatchRefused(r) \/ LoopPromptSent(r)  PROVE Kept
    BY <1>0, <1>7 DEF SkipStaleBase, DispatchRefused, LoopPromptSent, JobDone, Loop
  <1>8. Kept \/ Picked \/ Left
    <2>. HIDE DEF Kept, Picked, Left
    <2>. QED  BY <1>3, <1>4, <1>5, <1>6, <1>7
  <1>9. \/ loops'[r].pc \notin Dealing
        \/ /\ loops'[r].pc \in Dealing \ {"send"}
           /\ Reserved(r)' <= Reserved(r) /\ Reserved(r)' \in Nat
    BY <1>0, <1>8 DEF Reserved, Dealing
  <1>. QED  BY <1>0, <1>1, <1>2, <1>9, CalmTurn DEF Dealing

(* A loop that ends its tick, its sleep or its run. *)
LEMMA RestKeepsAlone ==
    ASSUME AInv, NEW r \in RunIds, Turn(r), OneLive', CheckConvergence(r) \/ Wake(r)
    PROVE  AloneAfter
  <1>. USE DEF AInv
  <1>1. DOMAIN loops = RunIds /\ loops[r] \in Loop
    BY LoopTypes DEF CInv
  <1>2. loops'[r].pc \in {"done", "sleep", "messages"}
    BY <1>1 DEF CheckConvergence, Wake, EndRun, Between, Goto, Loop
  <1>3. UNCHANGED <<tstatus, ctxs, gates>> /\ loops[r].pc # "messages"
    BY DEF CheckConvergence, Wake, At, vars
  <1>. QED  BY <1>2, <1>3, CalmTurn DEF Dealing

(* The row is written: the task takes the slot that was reserved for it. *)
LEMMA OpenKeepsAlone ==
    ASSUME AInv, NEW r \in RunIds, Turn(r), OneLive', OpenDispatch(r)
    PROVE  AloneAfter
  <1>. USE DEF AInv
  <1>0. /\ loops[r].slots \in Nat /\ loops[r] \in Loop /\ DOMAIN loops = RunIds
        /\ TypeOK
    BY ReservedIsNat, LoopTypes DEF CInv
  <1>1. loops[r].job \in Tasks \X Handles /\ loops[r].pc = "probe"
    BY <1>0 DEF OpenDispatch, At, CInv, JobKnown, Loop, Jobs
  <1>2. PICK t \in Tasks, h \in Handles : DispatchTask(t, h, TRUE)
    BY <1>1 DEF OpenDispatch
  <1>3. GatedBlocked
    BY <1>1, ElsewhereBlocked
  <1>4. /\ Tables' /\ GatedBlocked'
        /\ \A c : c = Len(ctxs) + 1 => c \in CtxIds' /\ Newest(c)' /\ ctxs'[c].task = t
        /\ t \notin DispatchedTasks /\ DispatchedTasks' = DispatchedTasks \cup {t}
    BY <1>0, <1>2, <1>3, DispatchKeepsTables
  <1>5. loops'[r].pc = "send" /\ loops'[r].ctx = Len(ctxs) + 1
        /\ loops'[r].slots = loops[r].slots
    BY <1>0 DEF OpenDispatch, Loop
  <1>6. Cardinality(DispatchedTasks)' = Cardinality(DispatchedTasks) + 1
    BY <1>4, CountIsNat, FS_AddElement
  <1>7. Cardinality(DispatchedTasks) + loops[r].slots + 1 <= MaxConcurrent
    BY <1>0, <1>1, CountIsNat, LoopBoundsAssumption DEF SlotsLeft, Reserved, Dealing
  <1>8. Cardinality(DispatchedTasks)' + Reserved(r)' <= MaxConcurrent
    BY <1>0, <1>5, <1>6, <1>7, CountIsNat, LoopBoundsAssumption DEF Reserved
  <1>9. ConcurrencyLimit'
    BY <1>0, <1>6, <1>7, CountIsNat, LoopBoundsAssumption DEF ConcurrencyLimit
  <1>10. tstatus'[t] = "dispatched"
    BY <1>4 DEF DispatchedTasks
  <1>11. /\ loops'[r].ctx \in CtxIds'
         /\ \A d \in CtxIds' : ctxs'[d].task = ctxs'[loops'[r].ctx].task => d <= loops'[r].ctx
         /\ tstatus'[ctxs'[loops'[r].ctx].task] # "blocked"
    BY <1>4, <1>5, <1>10 DEF Newest
  <1>. QED  BY <1>4, <1>8, <1>9, <1>11, TurnKeepsLoops DEF AloneAfter

(* The prompt was not sent: the row fails, and it is its task's newest. *)
LEMMA FailedPromptKeepsAlone ==
    ASSUME AInv, NEW r \in RunIds, Turn(r), OneLive', LoopPromptFailed(r)
    PROVE  AloneAfter
  <1>. USE DEF AInv
  <1>0. /\ loops[r].slots \in Nat /\ loops[r] \in Loop /\ DOMAIN loops = RunIds
        /\ TypeOK
    BY ReservedIsNat, LoopTypes DEF CInv
  <1>1. PICK c \in CtxIds : c = loops[r].ctx
    BY DEF LoopPromptFailed, At, SendOwns
  <1>2. /\ loops[r].pc = "send" /\ FailDispatch(c) /\ UNCHANGED gates
        /\ Newest(c) /\ tstatus[ctxs[c].task] # "blocked"
    BY <1>1 DEF LoopPromptFailed, At, SendOwns, PromptFailed, Tables, NothingDeleted
  <1>3. GatedBlocked
    BY <1>2, ElsewhereBlocked
  <1>4. TablesAfter /\ GatedBlocked'
    BY <1>0, <1>2, <1>3, FailKeepsTables
  <1>5. ConcurrencyLimit'
    BY <1>4, LimitAgain DEF TablesAfter
  <1>6. loops'[r].pc = "next" /\ loops'[r].slots = loops[r].slots
    BY <1>0 DEF LoopPromptFailed, JobDone, Loop
  <1>7. Cardinality(DispatchedTasks)' + Reserved(r)' <= MaxConcurrent
    <2>1. /\ Cardinality(DispatchedTasks)' \in Nat
          /\ Cardinality(DispatchedTasks)' <= Cardinality(DispatchedTasks)
      BY <1>4, NoMoreDispatched DEF TablesAfter
    <2>2. Cardinality(DispatchedTasks) + Reserved(r) <= MaxConcurrent
      BY <1>2 DEF SlotsLeft, Dealing
    <2>3. Reserved(r) = loops[r].slots + 0 /\ Reserved(r)' = loops[r].slots + 0
      BY <1>2, <1>6 DEF Reserved
    <2>. QED  BY <1>0, <2>1, <2>2, <2>3, CountIsNat, LoopBoundsAssumption
  <1>. QED  BY <1>4, <1>5, <1>6, <1>7, TurnKeepsLoops, TablesAgain DEF AloneAfter

LEMMA LoopKeepsAlone ==
    ASSUME AInv, NEW r \in RunIds, LoopStep(r)
    PROVE  AloneAfter
  <1>1. Turn(r) /\ OneLive'
    BY LoopStepIsTurn DEF AInv
  <1>. QED
    BY <1>1, MessagesKeepAlone, SnapshotKeepsAlone, DealKeepsAlone, RestKeepsAlone,
       OpenKeepsAlone, FailedPromptKeepsAlone, Zenon DEF LoopStep

-----------------------------------------------------------------------------
(* Runs, workers and people *)

(* Everybody else acts between the turns of the loop. *)
LEMMA OthersKeepAlone ==
    ASSUME AInv, EventLoopFree, RunIds' = RunIds,
           \A r \in RunIds : /\ loops'[r].pc = loops[r].pc
                             /\ loops'[r].slots = loops[r].slots
                             /\ loops'[r].ctx = loops[r].ctx,
           TablesAfter, GatedBlocked => GatedBlocked', NobodyBlocked, RetiresOnly
    PROVE  AloneAfter
  <1>. USE DEF AInv
  <1>1. GatedBlocked'
    BY DEF EventLoopFree, Quiet, Sync
  <1>2. Tables' /\ ConcurrencyLimit'
    BY TablesAgain, LimitAgain DEF TablesAfter
  <1>3. OneLive'
    BY DEF OneLive
  <1>4. SlotsLeft'
    <2>. SUFFICES ASSUME NEW r \in RunIds, loops[r].pc \in Dealing
                  PROVE  Cardinality(DispatchedTasks)' + Reserved(r)' <= MaxConcurrent
      BY DEF SlotsLeft
    <2>1. Reserved(r)' = Reserved(r) /\ Reserved(r) \in Nat
      BY ReservedIsNat DEF Reserved
    <2>2. Cardinality(DispatchedTasks) + Reserved(r) <= MaxConcurrent
      BY DEF SlotsLeft
    <2>3. /\ Cardinality(DispatchedTasks)' \in Nat
          /\ Cardinality(DispatchedTasks)' <= Cardinality(DispatchedTasks)
      BY NoMoreDispatched DEF TablesAfter
    <2>. QED  BY <2>1, <2>2, <2>3, CountIsNat, LoopBoundsAssumption
  <1>5. SendOwns'
    <2>. SUFFICES ASSUME NEW r \in RunIds, loops[r].pc = "send", NEW c, c = loops[r].ctx
                  PROVE  c \in CtxIds' /\ Newest(c)' /\ tstatus'[ctxs'[c].task] # "blocked"
      BY DEF SendOwns, Newest
    <2>1. c \in CtxIds /\ Newest(c) /\ tstatus[ctxs[c].task] # "blocked"
      BY DEF SendOwns
    <2>2. CtxIds' = CtxIds /\ \A d \in CtxIds : ctxs'[d].task = ctxs[d].task
      BY DEF RetiresOnly, CtxIds
    <2>3. ctxs[c].task \in Tasks
      BY <2>1, RowTypes DEF CInv
    <2>. QED  BY <2>1, <2>2, <2>3 DEF Newest, NobodyBlocked
  <1>. QED  BY <1>1, <1>2, <1>3, <1>4, <1>5 DEF AloneAfter

(* The same when the tables are left alone. *)
LEMMA CalmOthers ==
    ASSUME AInv, EventLoopFree, RunIds' = RunIds, UNCHANGED <<tstatus, ctxs, gates>>,
           \A r \in RunIds : /\ loops'[r].pc = loops[r].pc
                             /\ loops'[r].slots = loops[r].slots
                             /\ loops'[r].ctx = loops[r].ctx
    PROVE  AloneAfter
  <1>1. TablesAfter /\ (GatedBlocked => GatedBlocked')
    BY SameTables DEF AInv
  <1>2. NobodyBlocked /\ RetiresOnly
    BY DEF NobodyBlocked, RetiresOnly
  <1>. QED  BY <1>1, <1>2, OthersKeepAlone

LEMMA WorkerKeepsAlone ==
    ASSUME AInv, NEW c \in working,
           WorkerReports(c) \/ WorkerEscalates(c) \/ WorkerAsksForGate(c)
    PROVE  AloneAfter
  <1>1. EventLoopFree /\ UNCHANGED <<runs, loops>>
    BY DEF WorkerReports, WorkerEscalates, WorkerAsksForGate, coordination
  <1>2. CASE WorkerReports(c)
    <2>1. ReconcileWorkerDone(c)
      BY <1>2 DEF WorkerReports
    <2>. QED  BY <1>1, <2>1, ReportKeepsTables, OthersKeepAlone DEF AInv, CInv, RunIds
  <1>3. CASE WorkerEscalates(c) \/ WorkerAsksForGate(c)
    BY <1>1, <1>3, CalmOthers DEF WorkerEscalates, WorkerAsksForGate, vars, RunIds
  <1>. QED  BY <1>2, <1>3

(* A worker exits: the dispatch it held was in progress, so it is awaited. *)
LEMMA ExitKeepsAlone ==
    ASSUME AInv, NEW p \in Panes, WorkerExits(p)
    PROVE  AloneAfter
  <1>. USE DEF AInv, CInv
  <1>1. EventLoopFree /\ UNCHANGED <<runs, loops, gates>> /\ AgentExit(p)
    BY DEF WorkerExits, AgentExit, coordination
  <1>2. CASE UNCHANGED <<ctxs, tstatus>>
    BY <1>1, <1>2, CalmOthers DEF RunIds
  <1>3. ASSUME NEW c \in CtxIds, Active(c), FailDispatch(c)  PROVE AloneAfter
    <2>1. OnceGated(ctxs[c].task) => Newest(c) /\ tstatus[ctxs[c].task] = "dispatched"
      BY <1>3 DEF Tables, Awaited
    <2>2. /\ TablesAfter /\ NobodyBlocked /\ RetiresOnly
          /\ GatedBlocked => GatedBlocked'
      BY <1>1, <1>3, <2>1, FailKeepsTables
    <2>. QED  BY <1>1, <2>2, OthersKeepAlone DEF RunIds
  <1>. QED  BY <1>1, <1>2, <1>3 DEF AgentExit, Occupies

LEMMA PeopleKeepAlone ==
    ASSUME AInv,
           \/ \E g \in DOMAIN gates : AnswerGate(g)
           \/ \E t \in Tasks, ds \in SUBSET Tasks : AddTask(t, ds)
    PROVE  AloneAfter
  <1>. USE DEF AInv, CInv
  <1>1. ASSUME NEW g \in DOMAIN gates, AnswerGate(g)  PROVE AloneAfter
    <2>1. /\ EventLoopFree /\ UNCHANGED <<runs, loops>>
          /\ gates[g].status = "pending" /\ ResolveGate(g)
      BY <1>1 DEF AnswerGate, coordination
    <2>. QED  BY <2>1, AnswerKeepsTables, OthersKeepAlone DEF RunIds
  <1>2. ASSUME NEW t \in Tasks, NEW ds \in SUBSET Tasks, AddTask(t, ds)  PROVE AloneAfter
    <2>1. EventLoopFree /\ UNCHANGED <<runs, loops>> /\ CreateTask(t, ds)
      BY <1>2 DEF AddTask, coordination
    <2>. QED  BY <2>1, CreateKeepsTables, OthersKeepAlone DEF RunIds
  <1>. QED  BY <1>1, <1>2

LEMMA StopKeepsAlone ==
    ASSUME AInv, RunStop
    PROVE  AloneAfter
  <1>1. /\ EventLoopFree /\ UNCHANGED <<runs, tstatus, ctxs, gates>>
        /\ loops' = [r \in RunIds |->
                IF r = active THEN [loops[r] EXCEPT !.stopped = TRUE] ELSE loops[r]]
    BY DEF RunStop, vars
  <1>2. \A r \in RunIds : loops[r] \in Loop
    BY LoopTypes DEF AInv, CInv
  <1>3. \A r \in RunIds : /\ loops'[r].pc = loops[r].pc
                          /\ loops'[r].slots = loops[r].slots
                          /\ loops'[r].ctx = loops[r].ctx
    BY <1>1, <1>2 DEF Loop
  <1>. QED  BY <1>1, <1>3, CalmOthers DEF RunIds

(* A run is started when none is recorded as running, so no loop lives. *)
LEMMA StartKeepsAlone ==
    ASSUME AInv, StartRun
    PROVE  AloneAfter
  <1>. USE DEF AInv
  <1>. DEFINE to == IF Existing = {} THEN "done" ELSE "messages"
              l == [pc |-> to, stopped |-> FALSE, broke |-> FALSE, todo |-> {},
                    targets |-> {}, slots |-> 0, job |-> <<>>, ctx |-> 0]
              new == Len(loops) + 1
  <1>1. /\ EventLoopFree /\ Running = {} /\ UNCHANGED <<tstatus, ctxs, gates>>
        /\ loops' = Append(loops, l)
    BY DEF StartRun, vars
  <1>2. \A r \in RunIds : loops[r].pc \in Ended
    BY <1>1 DEF Running, RunningRowHasLoop, Ended
  <1>3. /\ RunIds' = RunIds \cup {new} /\ loops'[new].pc = to
        /\ \A r \in RunIds : loops'[r] = loops[r]
    <2>1. CInv'
      BY CNextKeepsInv DEF CNext
    <2>2. RunIds = 1 .. Len(loops) /\ loops \in Seq(Loop) /\ Len(loops) \in Nat
      BY LoopTypes DEF CInv, CTypeOK
    <2>3. RunIds' = 1 .. Len(loops') /\ loops' \in Seq(Loop)
      <3>1. /\ runs' \in Seq({"running", "completed", "failed", "deleted"})
            /\ loops' \in Seq(Loop) /\ Len(loops') = Len(runs')
        BY <2>1 DEF CInv, CTypeOK
      <3>. QED  BY <3>1, LenProperties DEF RunIds
    <2>. HIDE DEF l, to
    <2>4. Len(loops') = new /\ loops'[new] = l /\ \A r \in RunIds : loops'[r] = loops[r]
      <3>1. \A k \in 1 .. Len(loops) : Append(loops, l)[k] = loops[k]
        BY <2>2, AppendProperties
      <3>. QED  BY <1>1, <2>2, <3>1, AppendProperties
    <2>. QED  BY <2>2, <2>3, <2>4 DEF l
  <1>. HIDE DEF l, new
  <1>4. TablesAfter /\ GatedBlocked'
    <2>1. GatedBlocked
      BY <1>2 DEF Quiet, Ended
    <2>. QED  BY <1>1, <2>1, SameTables
  <1>5. OneLive'
    BY <1>2, <1>3 DEF OneLive
  <1>6. SlotsLeft' /\ SendOwns'
    BY <1>2, <1>3 DEF SlotsLeft, SendOwns, Dealing, Ended
  <1>7. ConcurrencyLimit'
    BY <1>4, LimitAgain DEF TablesAfter
  <1>. QED  BY <1>4, <1>5, <1>6, <1>7, TablesAgain DEF AloneAfter

-----------------------------------------------------------------------------
(* The theorems *)

LEMMA AloneStep ==
    ASSUME AInv, [CNext]_cvars
    PROVE  AInv'
  <1>1. CASE CNext
    <2>1. CInv' /\ RunningRowHasLoop'
      BY <1>1, CNextKeepsInv DEF AInv
    <2>2. AloneAfter
      BY <1>1, StartKeepsAlone, StopKeepsAlone, LoopKeepsAlone, WorkerKeepsAlone,
         ExitKeepsAlone, PeopleKeepAlone, Zenon DEF CNext
    <2>. QED  BY <2>1, <2>2 DEF AInv, AloneAfter
  <1>2. CASE UNCHANGED cvars
    <2>1. CInv' /\ RunningRowHasLoop'
      BY <1>2, StutterKeepsInv DEF AInv
    <2>2. UNCHANGED <<tstatus, ctxs, gates, runs, loops>>
      BY <1>2 DEF cvars, vars
    <2>3. TablesAfter /\ (GatedBlocked => GatedBlocked')
      BY <2>2, SameTables DEF AInv
    <2>4. (Quiet => GatedBlocked)' /\ OneLive' /\ ConcurrencyLimit'
      BY <2>2, <2>3 DEF AInv, Quiet, OneLive, ConcurrencyLimit, DispatchedTasks, RunIds
    <2>5. SlotsLeft' /\ SendOwns'
      BY <2>2 DEF AInv, SlotsLeft, SendOwns, Reserved, DispatchedTasks, Newest, CtxIds, RunIds
    <2>. QED  BY <2>1, <2>3, <2>4, <2>5, TablesAgain DEF AInv
  <1>. QED  BY <1>1, <1>2

LEMMA InitAlone == CInit => AInv
  <1>. SUFFICES ASSUME CInit  PROVE AInv
    OBVIOUS
  <1>1. CInv
    BY InitCInv
  <1>2. /\ RunIds = {} /\ CtxIds = {} /\ DOMAIN gates = {}
        /\ tstatus = [t \in Tasks |-> "none"]
    BY DEF CInit, Init, RunIds, CtxIds
  <1>3. DispatchedTasks = {}
    BY <1>2 DEF DispatchedTasks
  <1>4. ConcurrencyLimit
    BY <1>3, FS_EmptySet, LoopBoundsAssumption DEF ConcurrencyLimit
  <1>. QED
    BY <1>1, <1>2, <1>4 DEF AInv, RunningRowHasLoop, OneLive, Tables, Awaited, NothingDeleted,
       GatesNamed, GatedIdle, GatedBlocked, Waiting, SlotsLeft, SendOwns

LEMMA AloneInv == CSpec => []AInv
  BY InitAlone, AloneStep, PTL DEF CSpec

(* A set with at most one gate has no two. *)
LEMMA GatedOnce ==
    ASSUME TypeOK, NEW t, Cardinality(GatesOf(t)) <= 1
    PROVE  OnceGated(t)
  <1>1. IsFiniteSet(GatesOf(t))
    <2>1. IsFiniteSet(1 .. Len(gates)) /\ DOMAIN gates = 1 .. Len(gates)
      BY GateTypes, FS_Interval
    <2>2. GatesOf(t) \in SUBSET (1 .. Len(gates))
      BY <2>1 DEF GatesOf
    <2>. QED  BY <2>1, <2>2, FS_Subset
  <1>2. Cardinality(GatesOf(t)) \in Nat
    BY <1>1, FS_CardinalityType
  <1>3. CASE Cardinality(GatesOf(t)) = 0
    BY <1>1, <1>3, FS_EmptySet DEF OnceGated
  <1>4. CASE Cardinality(GatesOf(t)) = 1
    BY <1>1, <1>4, FS_Singleton DEF OnceGated
  <1>. QED  BY <1>2, <1>3, <1>4

(* A coordinator that is alone keeps at most maxConcurrent tasks dispatched, *)
(* although it counts its free slots before several awaits and uses them     *)
(* after: coordinator.ts, dispatchReadyTasks.                                *)
THEOREM LimitHolds == CSpec => []ConcurrencyLimit
  <1>1. AInv => ConcurrencyLimit
    BY DEF AInv
  <1>. QED  BY <1>1, AloneInv, PTL

(* Whoever works on a task that was gated at most once works on its newest   *)
(* dispatch, and the task waits for that dispatch: no report is in vain.     *)
THEOREM WorkersAreAwaited == CSpec => []WorkerIsAwaited
  <1>1. AInv => WorkerIsAwaited
    <2>. SUFFICES ASSUME AInv, NEW c \in CtxIds, Active(c),
                         Cardinality(GatesOf(ctxs[c].task)) <= 1
                  PROVE  /\ tstatus[ctxs[c].task] = "dispatched"
                         /\ IsLast(c, RowsOf(ctxs[c].task))
      BY DEF WorkerIsAwaited
    <2>1. tstatus[ctxs[c].task] = "dispatched" /\ Newest(c)
      BY GatedOnce DEF AInv, CInv, Tables, Awaited
    <2>. QED  BY <2>1, NewestIsLast DEF AInv, Tables
  <1>. QED  BY <1>1, AloneInv, PTL

=============================================================================
