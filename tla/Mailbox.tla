------------------------------ MODULE Mailbox ------------------------------
(***************************************************************************)
(* The messages between terminals: the messages table of the orchestration *)
(* database with its read and delivered marks, the orchestration.send,     *)
(* check, reply and ask handlers, the calls that wait for a message, and   *)
(* the runtime's push-on-idle, which types unread messages into the prompt *)
(* of an idle agent.                                                       *)
(*                                                                         *)
(* A handler is one synchronous block, so one action; what it awaits is    *)
(* split.  `check --wait' and `ask' sleep in waitForMessage until they are *)
(* notified, time out or lose their client, and run on as a continuation   *)
(* (Resume) before the event loop serves anything else (EventLoopFree).  A *)
(* push types the messages at once but stamps them delivered only with the *)
(* Enter key half a second later (Submit).                                 *)
(*                                                                         *)
(* Reading is destructive for the reader only: `read' says that a check    *)
(* took the message, `delivered' that the terminal has it.  The worker's   *)
(* dispatch is one flag, in progress or over; module Dispatch has the      *)
(* rest of it.                                                             *)
(***************************************************************************)
EXTENDS Naturals, Sequences, FiniteSets

CONSTANTS
    Handles,        \* terminal handles that messages name
    Coordinator,    \* the handle of the active coordinator run
    Worker,         \* the handle of the worker whose dispatch is followed
    UserPrompts,    \* terminals whose prompt the user submits: no Enter is typed
    Calls,          \* check --wait and ask calls that may be open at once
    SendTypes,      \* message types used with send
    Filters,        \* type filters used with check
    MaxMessages     \* bound: rows of the messages table

MessageTypes == {"status", "worker_done", "heartbeat", "escalation", "decision_gate"}

ASSUME HandlesAssumption ==
    /\ IsFiniteSet(Handles)
    /\ Coordinator \in Handles /\ Worker \in Handles /\ UserPrompts \subseteq Handles
ASSUME RoomAssumption == MaxMessages \in Nat
ASSUME TypesAssumption ==
    SendTypes \subseteq MessageTypes /\ Filters \subseteq SUBSET MessageTypes

VARIABLES
    posts,      \* every message ever inserted, in the order of its sequence number
    present,    \* the rows that no reset has deleted
    read,       \* the rows marked read
    delivered,  \* the rows stamped delivered_at
    term,       \* what the runtime believes of the terminal behind a handle
    timers,     \* pushes typed but not yet submitted
    calls,      \* the calls of check --wait and ask
    inProgress, \* the worker's dispatch is still dispatched
    given,      \* history: messages that a check or an ask returned, or a reply answered
    typed       \* history: messages written to a terminal

rows == <<posts, present, read, delivered>>
pushes == <<timers, typed>>
mvars == <<posts, present, read, delivered, term, timers, calls, inProgress, given, typed>>

-----------------------------------------------------------------------------
(* The table *)

Ids == DOMAIN posts

(* A message of a thread names the message that opened it; 0 is no thread. *)
Header == [from : Handles, to : Handles, type : MessageTypes, thread : 0 .. MaxMessages]

Message(from, to, type, thread) ==
    [from |-> from, to |-> to, type |-> type, thread |-> thread]

Room(n) == Len(posts) + n <= MaxMessages

Insert(headers) ==
    /\ Room(Len(headers))
    /\ posts' = posts \o headers
    /\ present' = present \cup (Len(posts) + 1 .. Len(posts) + Len(headers))

UnreadMessages(h, types) ==
    {i \in present \ read : posts[i].to = h /\ posts[i].type \in types}

(* Mutant: a row counts as delivered once it is typed. *)
UntypedUnread(h) ==
    {i \in present' \ (read' \cup delivered \cup typed) : posts'[i].to = h}

(* With the rows of the next state: what a handler reads after its insert.   *)
UndeliveredUnread(h) ==
    {i \in present' \ (read' \cup delivered) : posts'[i].to = h}

ThreadMessagesFor(thread, h) ==
    {i \in present : posts[i].thread = thread /\ posts[i].to = h /\ i > thread}

-----------------------------------------------------------------------------
(* Push-on-idle *)

(* deliverPendingMessages of the terminals H that are idle.  A write may     *)
(* fail.  `timers' is a set: two pushes of the same rows have the same       *)
(* effect when they are submitted.                                           *)
Push(H, stamped) ==
    \E W \in SUBSET {h \in H : term'[h] = "idle" /\ UndeliveredUnread(h) # {}} :
        LET ids(X) == UNION {UndeliveredUnread(h) : h \in X} IN
        /\ typed' = typed \cup ids(W)
        /\ delivered' = delivered \cup stamped \cup ids(W \cap UserPrompts)
        /\ timers' = timers \cup {UndeliveredUnread(h) : h \in W \ UserPrompts}

NoPush == UNCHANGED pushes

-----------------------------------------------------------------------------
(* Calls that wait *)

Idle == [pc |-> "free", op |-> "check", handle |-> Coordinator, types |-> {}, thread |-> 0]

(* An ask waits in a thread, for messages of every type. *)
CallState ==
    {r \in [pc : {"free", "waiting", "notified", "timedout", "aborted"}, op : {"check", "ask"},
            handle : Handles, types : SUBSET MessageTypes, thread : 0 .. MaxMessages] :
        r.op = "ask" => r.types = MessageTypes /\ r.thread # 0}

Waiting(c) == calls[c].pc = "waiting"

Woken(c) == calls[c].pc \in {"notified", "timedout", "aborted"}

EventLoopFree == \A c \in Calls : ~Woken(c)

(* Mutant: only one of the waiters of a handle is woken. *)
NotifyOne(H, type) ==
    LET matching == {c \in Calls : /\ calls[c].pc = "waiting"
                                   /\ calls[c].handle \in H
                                   /\ type \in calls[c].types} IN
    [c \in Calls |->
        IF matching # {} /\ c = CHOOSE d \in matching : TRUE
        THEN [calls[c] EXCEPT !.pc = "notified"] ELSE calls[c]]

(* notifyMessageArrived: all waiters of the handles that want the type wake. *)
Notified(H, type) ==
    [c \in Calls |->
        IF calls[c].pc = "waiting" /\ calls[c].handle \in H /\ type \in calls[c].types
        THEN [calls[c] EXCEPT !.pc = "notified"] ELSE calls[c]]

Sleep(c, op, h, types, thread) ==
    calls' = [calls EXCEPT ![c] =
        [pc |-> "waiting", op |-> op, handle |-> h, types |-> types, thread |-> thread]]

Return(c) == calls' = [calls EXCEPT ![c] = Idle]

-----------------------------------------------------------------------------
(* Lifecycle reconciliation *)

(* The report among S that the dispatch accepts: the first.  Reports come    *)
(* from its worker here; one without authority leaves the marks alone        *)
(* (Dispatch!WorkerDone).                                                    *)
Accepted(S) ==
    LET reports == {i \in S : posts'[i].type = "worker_done"} IN
    {i \in reports : inProgress /\ \A j \in reports : i <= j}

(* suppressEarlierHeartbeats: heartbeats to the same handle, not yet read.   *)
Superseded(done) ==
    {i \in present' \ read :
        /\ posts'[i].type = "heartbeat"
        /\ \E d \in done : i < d /\ posts'[i].to = posts'[d].to}

(* Heartbeats among S that arrive, or are read, when the dispatch is over.   *)
Obsolete(S) ==
    {i \in S : /\ posts'[i].type = "heartbeat"
               /\ ~inProgress \/ \E d \in Accepted(S) : d < i}

-----------------------------------------------------------------------------
(* send, reply and the hook on exit *)

(* A message to one handle: inserted, reconciled, pushed, announced.  A      *)
(* heartbeat of a dispatch that is over is marked read and announced to      *)
(* nobody.                                                                   *)
Send(from, to, type) ==
    /\ EventLoopFree
    /\ from # to
    /\ type \in {"worker_done", "heartbeat"} => from = Worker
    /\ Insert(<<Message(from, to, type, 0)>>)
    /\ UNCHANGED <<term, given>>
    /\ LET new == {Len(posts) + 1}
           withdrawn == Obsolete(new) \cup Superseded(Accepted(new)) IN
        /\ inProgress' = (inProgress /\ Accepted(new) = {})
        /\ read' = read \cup withdrawn
        /\ IF Obsolete(new) # {}
           THEN /\ delivered' = delivered \cup withdrawn
                /\ NoPush
                /\ UNCHANGED calls
           ELSE /\ Push({to}, withdrawn)
                /\ calls' = Notified({to}, type)

(* A message to a group: the recipients come from an awaited listing, so     *)
(* some may have gone meanwhile.  Nothing is reconciled here.                *)
SendToGroup(from, recipients, type) ==
    /\ EventLoopFree
    /\ from \notin recipients
    /\ type \in {"worker_done", "heartbeat"} => from = Worker
    /\ \E order \in [1 .. Cardinality(recipients) -> recipients] :
        /\ \A h \in recipients : \E k \in DOMAIN order : order[k] = h
        /\ Insert([k \in DOMAIN order |-> Message(from, order[k], type, 0)])
    /\ UNCHANGED <<read, term, inProgress, given>>
    /\ Push(recipients, {})
    /\ calls' = Notified(recipients, type)

(* The answer to a message goes to its sender's handle, in its thread, and   *)
(* is announced but not pushed.                                              *)
Reply(i) ==
    /\ EventLoopFree
    /\ i \in present
    /\ read' = read \cup {i}
    /\ Insert(<<Message(posts[i].to, posts[i].from, "status",
                        IF posts[i].thread = 0 THEN i ELSE posts[i].thread)>>)
    /\ calls' = Notified({posts[i].from}, "status")
    /\ given' = given \cup {i}
    /\ UNCHANGED <<delivered, term, pushes, inProgress>>

(* The terminal behind a handle exits.  The worker's dispatch fails and the  *)
(* coordinator gets an escalation, which is neither pushed nor announced.    *)
Exit(h) ==
    /\ EventLoopFree
    /\ term[h] # "gone"
    /\ term' = [term EXCEPT ![h] = "gone"]
    /\ IF h = Worker /\ inProgress
       THEN /\ inProgress' = FALSE
            /\ Insert(<<Message(Worker, Coordinator, "escalation", 0)>>)
       ELSE UNCHANGED <<inProgress, posts, present>>
    /\ UNCHANGED <<read, delivered, pushes, calls, given>>

-----------------------------------------------------------------------------
(* check and ask *)

(* Mutant: the rows are not marked. *)
TakeUnmarked(h, types) ==
    LET batch == UnreadMessages(h, types)
        withdrawn == Obsolete(batch) \cup Superseded(Accepted(batch)) IN
    /\ UNCHANGED <<posts, present>>
    /\ given' = given \cup batch
    /\ read' = read \cup withdrawn
    /\ delivered' = delivered \cup withdrawn
    /\ inProgress' = (inProgress /\ Accepted(batch) = {})

(* Everything unread of the wanted types is reconciled, marked and returned  *)
(* at once, to a check or to the coordinator's loop.                         *)
Take(h, types) ==
    LET batch == UnreadMessages(h, types)
        withdrawn == Obsolete(batch) \cup Superseded(Accepted(batch)) IN
    /\ UNCHANGED <<posts, present>>
    /\ given' = given \cup batch
    /\ read' = read \cup batch \cup withdrawn
    /\ delivered' = delivered \cup withdrawn
    /\ inProgress' = (inProgress /\ Accepted(batch) = {})

(* A check, with or without --wait, that finds mail. *)
Check(c, h, types) ==
    /\ EventLoopFree
    /\ calls[c].pc = "free"
    /\ UnreadMessages(h, types) # {}
    /\ Take(h, types)
    /\ UNCHANGED <<term, pushes, calls>>

(* A check --wait that finds none; no await lies between. *)
CheckSleeps(c, h, types) ==
    /\ EventLoopFree
    /\ calls[c].pc = "free"
    /\ UnreadMessages(h, types) = {}
    /\ Sleep(c, "check", h, types, 0)
    /\ UNCHANGED <<rows, term, pushes, inProgress, given>>

(* Mutant: the question opens no thread to wait in. *)
AskUnthreaded(c, from, to) ==
    /\ EventLoopFree
    /\ calls[c].pc = "free"
    /\ from # to
    /\ Insert(<<Message(from, to, "decision_gate", 0)>>)
    /\ UNCHANGED <<read, term, inProgress, given>>
    /\ Push({to}, {})
    /\ calls' = [Notified({to}, "decision_gate") EXCEPT ![c] =
            [pc |-> "waiting", op |-> "ask", handle |-> from, types |-> MessageTypes,
             thread |-> 0]]

(* A question: sent like any message, then waited for by its thread. *)
Ask(c, from, to) ==
    /\ EventLoopFree
    /\ calls[c].pc = "free"
    /\ from # to
    /\ Insert(<<Message(from, to, "decision_gate", 0)>>)
    /\ UNCHANGED <<read, term, inProgress, given>>
    /\ Push({to}, {})
    /\ calls' = [Notified({to}, "decision_gate") EXCEPT ![c] =
            [pc |-> "waiting", op |-> "ask", handle |-> from, types |-> MessageTypes,
             thread |-> Len(posts) + 1]]

(* Mutant: the mailbox is read before the client's absence is looked at. *)
ResumeCheckUnguarded(c) ==
    /\ Woken(c)
    /\ calls[c].op = "check"
    /\ LET batch == UnreadMessages(calls[c].handle, calls[c].types) IN
        /\ read' = read \cup batch
        /\ IF calls[c].pc = "aborted"
           THEN UNCHANGED given
           ELSE given' = given \cup batch
    /\ Return(c)
    /\ UNCHANGED <<posts, present, delivered, term, pushes, inProgress>>

(* A check that slept reads the mailbox again, unless its client has gone. *)
ResumeCheck(c) ==
    /\ Woken(c)
    /\ calls[c].op = "check"
    /\ IF calls[c].pc = "aborted"
       THEN UNCHANGED <<rows, inProgress, given>>
       ELSE Take(calls[c].handle, calls[c].types)
    /\ Return(c)
    /\ UNCHANGED <<term, pushes>>

(* An ask that slept looks for the first answer in its thread, whether or    *)
(* not a check has taken it.  Without one it gives up when its time is over  *)
(* or its client has gone, and else sleeps again.                            *)
ResumeAsk(c) ==
    /\ Woken(c)
    /\ calls[c].op = "ask"
    /\ LET replies == ThreadMessagesFor(calls[c].thread, calls[c].handle) IN
        IF replies # {}
        THEN /\ \E i \in replies :
                  /\ \A j \in replies : i <= j
                  /\ read' = read \cup {i}
                  /\ given' = given \cup {i}
             /\ Return(c)
        ELSE /\ UNCHANGED <<read, given>>
             /\ \/ Return(c)
                \/ /\ calls[c].pc = "notified"
                   /\ calls' = [calls EXCEPT ![c].pc = "waiting"]
    /\ UNCHANGED <<posts, present, delivered, term, pushes, inProgress>>

(* The waiter's timer fires, or its client's socket closes. *)
WakeUp(c, why) ==
    /\ EventLoopFree
    /\ Waiting(c)
    /\ calls' = [calls EXCEPT ![c].pc = why]
    /\ UNCHANGED <<rows, term, pushes, inProgress, given>>

-----------------------------------------------------------------------------
(* Terminals, timers, resets, restarts *)

(* A title says the agent rests: a transition to idle pushes what is unread. *)
BecomesIdle(h) ==
    /\ EventLoopFree
    /\ term[h] = "busy"
    /\ term' = [term EXCEPT ![h] = "idle"]
    /\ UNCHANGED <<posts, present, read, calls, inProgress, given>>
    /\ Push({h}, {})

BecomesBusy(h) ==
    /\ EventLoopFree
    /\ term[h] = "idle"
    /\ term' = [term EXCEPT ![h] = "busy"]
    /\ UNCHANGED <<rows, pushes, calls, inProgress, given>>

(* Half a second after a push: the Enter key; only if it is written are the  *)
(* messages stamped, whatever else happened to them meanwhile.               *)
Submit(ids, wrote) ==
    /\ EventLoopFree
    /\ ids \in timers
    /\ timers' = timers \ {ids}
    /\ delivered' = IF wrote THEN delivered \cup (ids \cap present) ELSE delivered
    /\ UNCHANGED <<posts, present, read, term, calls, inProgress, given, typed>>

(* A renderer reload: the handle is never resolved again. *)
HandleGoesStale(h) ==
    /\ EventLoopFree
    /\ term[h] # "gone"
    /\ term' = [term EXCEPT ![h] = "gone"]
    /\ UNCHANGED <<rows, pushes, calls, inProgress, given>>

(* Another handler ends the dispatch; Dispatch says which. *)
DispatchEnds ==
    /\ EventLoopFree
    /\ inProgress
    /\ inProgress' = FALSE
    /\ UNCHANGED <<rows, term, pushes, calls, given>>

ResetMessages ==
    /\ EventLoopFree
    /\ present' = {} /\ read' = {} /\ delivered' = {}
    /\ given' = {} /\ typed' = {}
    /\ UNCHANGED <<posts, term, timers, calls, inProgress>>

(* The rows survive; calls, timers and what was known of terminals do not. *)
Restart ==
    /\ calls' = [c \in Calls |-> Idle]
    /\ timers' = {}
    /\ \E lost \in SUBSET Handles :
        term' = [h \in Handles |-> IF term[h] = "gone" \/ h \in lost THEN "gone" ELSE "busy"]
    /\ UNCHANGED <<rows, inProgress, given, typed>>

-----------------------------------------------------------------------------

Init ==
    /\ posts = << >>
    /\ present = {} /\ read = {} /\ delivered = {}
    /\ term = [h \in Handles |-> "busy"]
    /\ timers = {}
    /\ calls = [c \in Calls |-> Idle]
    /\ inProgress = TRUE
    /\ given = {} /\ typed = {}

Resume(c) == ResumeCheck(c) \/ ResumeAsk(c)

Next ==
    \/ \E from \in Handles, to \in Handles, type \in SendTypes :
        Send(from, to, type)
    \/ \E from \in Handles, R \in SUBSET Handles \ {{}}, type \in SendTypes :
        SendToGroup(from, R, type)
    \/ \E i \in present : Reply(i)
    \/ \E c \in Calls, h \in Handles, F \in Filters : Check(c, h, F) \/ CheckSleeps(c, h, F)
    \/ \E c \in Calls, from \in Handles, to \in Handles : Ask(c, from, to)
    \/ \E c \in Calls : Resume(c) \/ WakeUp(c, "timedout") \/ WakeUp(c, "aborted")
    \/ \E h \in Handles : Exit(h) \/ BecomesIdle(h) \/ BecomesBusy(h) \/ HandleGoesStale(h)
    \/ \E ids \in timers, wrote \in BOOLEAN : Submit(ids, wrote)
    \/ DispatchEnds \/ ResetMessages \/ Restart

Spec == Init /\ [][Next]_mvars

-----------------------------------------------------------------------------
(* What is assumed for liveness: continuations run; an agent that works      *)
(* again and again comes to rest again and again, and typing into its        *)
(* terminal, the messages and then the Enter key, does not fail for ever.    *)
PushedIdle(h) ==
    /\ BecomesIdle(h)
    /\ IF h \in UserPrompts
       THEN UndeliveredUnread(h) \subseteq delivered'
       ELSE UndeliveredUnread(h) \in timers' \cup {{}}

Fairness ==
    /\ WF_mvars(\E c \in Calls : Resume(c))
    /\ \A h \in Handles : SF_mvars(PushedIdle(h))
    /\ SF_mvars(\E ids \in timers : Submit(ids, TRUE))

FairSpec == Spec /\ Fairness

-----------------------------------------------------------------------------
(* Properties *)

(* The table's marks name rows, pushes and calls name what is in the table,  *)
(* and an ask always has a thread to wait in (orchestration.ts:591).         *)
TypeOK ==
    /\ posts \in Seq(Header) /\ Len(posts) <= MaxMessages
    /\ present \subseteq Ids /\ read \subseteq Ids /\ delivered \subseteq Ids
    /\ term \in [Handles -> {"busy", "idle", "gone"}]
    /\ timers \subseteq SUBSET Ids
    /\ calls \in [Calls -> CallState]
    /\ inProgress \in BOOLEAN
    /\ given \subseteq Ids /\ typed \subseteq Ids

(* What a waiting call would return if it looked now; the escalation of an   *)
(* exit is announced to nobody (orca-runtime.ts:12576).                      *)
Wanted(c) ==
    {i \in IF calls[c].op = "check"
           THEN UnreadMessages(calls[c].handle, calls[c].types)
           ELSE ThreadMessagesFor(calls[c].thread, calls[c].handle) :
        posts[i].type # "escalation"}

(* No call sleeps while what it waits for is in the table: between looking   *)
(* and sleeping nothing can arrive, every arrival wakes all the waiters that *)
(* want it, and an answer wakes the asker although a check may take it       *)
(* first (orchestration.ts:321, orca-runtime.ts:26944).                      *)
NobodySleepsOverMail == \A c \in Calls : Waiting(c) => Wanted(c) = {}

(* A message that somebody was given is never unread again, so no later      *)
(* check returns it: several calls may be woken by one message, and a reply, *)
(* an ask or the end of a dispatch may come between.                         *)
TakenOnce == given \cap present \subseteq read

(* A message that is marked read was returned to somebody, or answered, or   *)
(* is a heartbeat of a dispatch that is over; one that is stamped delivered  *)
(* was typed into its terminal, or is such a heartbeat.  A client that hangs *)
(* up, a write that fails or a restart loses nothing.                        *)
NothingIsLost ==
    LET withdrawn == IF inProgress THEN {} ELSE {i \in Ids : posts[i].type = "heartbeat"} IN
    /\ read \subseteq given \cup withdrawn
    /\ delivered \subseteq typed \cup withdrawn

(* The comment on getUndeliveredUnreadMessages (db.ts:396): push-on-idle     *)
(* delivers each row at most once.  Two pushes that await their Enter have   *)
(* typed no row twice.                                                       *)
PushedAtMostOnce == \A a, b \in timers : a = b \/ a \cap b = {}

(* An agent that is busy again and again gets its mail in the end, pushed or *)
(* taken by a check, whether it was sent, fanned out, or answered.           *)
AgentGetsItsMail ==
    \A i \in 1 .. MaxMessages :
        <>[]~(i \in present \ (read \cup delivered) /\ term[posts[i].to] = "busy")
=============================================================================
