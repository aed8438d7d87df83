--------------------------- MODULE MailboxProofs ---------------------------
(***************************************************************************)
(* Theorems about module Mailbox, for any finite set of handles, any calls *)
(* and any number of messages.                                             *)
(*                                                                         *)
(* The inductive invariant is IInv.  Beside the properties it says of a    *)
(* push that waits for its Enter that it was typed, as far as its rows are *)
(* still there.  TypeOK has the rest: an ask waits for messages of every   *)
(* type, or an answer might not wake it, and for a thread, or a message of *)
(* none could be taken for an answer.                                      *)
(***************************************************************************)
EXTENDS Mailbox, SequenceTheorems, FiniteSetTheorems, TLAPS

PushesAreTyped == \A ids \in timers : ids \cap present \subseteq typed

IInv ==
    TypeOK /\ TakenOnce /\ NothingIsLost /\ NobodySleepsOverMail /\ PushesAreTyped

(* The table only grows, and what was posted stays as it was posted. *)
PostsKept ==
    /\ posts' \in Seq(Header) /\ Len(posts') <= MaxMessages
    /\ Ids \subseteq Ids' /\ Ids' \subseteq Nat
    /\ \A i \in Ids : posts'[i] = posts[i]

LEMMA PostsUnchanged ==
    ASSUME TypeOK, posts' = posts
    PROVE  PostsKept /\ Ids' = Ids
  BY LenProperties DEF TypeOK, PostsKept, Ids

LEMMA InsertStep ==
    ASSUME TypeOK, NEW headers \in Seq(Header), Insert(headers)
    PROVE  /\ PostsKept
           /\ Ids' \ Ids = Len(posts) + 1 .. Len(posts) + Len(headers)
           /\ Len(posts) \in Nat /\ Ids = 1 .. Len(posts)
           /\ present' = present \cup (Ids' \ Ids)
           /\ \A i \in Ids' \ Ids : posts'[i] = headers[i - Len(posts)]
  <1>1. /\ posts' \in Seq(Header)
        /\ Len(posts') = Len(posts) + Len(headers)
        /\ \A i \in 1 .. Len(posts) + Len(headers) :
                posts'[i] = IF i <= Len(posts) THEN posts[i] ELSE headers[i - Len(posts)]
    BY ConcatProperties DEF TypeOK, Insert
  <1>2. /\ Ids = 1 .. Len(posts) /\ Ids' = 1 .. Len(posts')
        /\ Len(posts) \in Nat /\ Len(headers) \in Nat
    BY <1>1, LenProperties DEF TypeOK, Ids
  <1>. QED  BY <1>1, <1>2 DEF Insert, PostsKept, Room

LEMMA InsertOne ==
    ASSUME TypeOK, NEW m \in Header, Insert(<<m>>)
    PROVE  /\ PostsKept
           /\ Len(posts) + 1 \notin Ids
           /\ Ids' = Ids \cup {Len(posts) + 1}
           /\ Len(posts) \in Nat /\ Ids = 1 .. Len(posts)
           /\ Len(posts) + 1 \in 1 .. MaxMessages
           /\ present' = present \cup {Len(posts) + 1}
           /\ posts'[Len(posts) + 1] = m
  <1>1. <<m>> \in Seq(Header) /\ Len(<<m>>) = 1 /\ <<m>>[1] = m
    OBVIOUS
  <1>2. PostsKept /\ Ids' \ Ids = Len(posts) + 1 .. Len(posts) + 1
        /\ present' = present \cup (Ids' \ Ids)
        /\ Len(posts) \in Nat /\ Ids = 1 .. Len(posts)
        /\ \A i \in Ids' \ Ids : posts'[i] = <<m>>[i - Len(posts)]
    BY <1>1, InsertStep
  <1>3. Len(posts) + 1 \in 1 .. MaxMessages
    BY <1>1, <1>2, RoomAssumption DEF Insert, Room
  <1>. QED  BY <1>1, <1>2, <1>3 DEF PostsKept

-----------------------------------------------------------------------------
(* What pushing and notifying leave alone *)

(* A push types what it stamps. *)
LEMMA PushStep ==
    ASSUME TypeOK, PostsKept, NEW H \in SUBSET Handles, NEW stamped \in SUBSET Ids',
           Push(H, stamped), present' \subseteq Ids'
    PROVE  /\ typed \subseteq typed' /\ typed' \subseteq Ids'
           /\ delivered' \subseteq Ids'
           /\ delivered' \subseteq delivered \cup stamped \cup typed'
           /\ timers' \subseteq SUBSET Ids'
           /\ timers' \subseteq timers \cup SUBSET typed'
  <1>1. PICK W \in SUBSET {h \in H : term'[h] = "idle" /\ UndeliveredUnread(h) # {}} :
            /\ typed' = typed \cup UNION {UndeliveredUnread(h) : h \in W}
            /\ delivered' = delivered \cup stamped
                    \cup UNION {UndeliveredUnread(h) : h \in W \cap UserPrompts}
            /\ timers' = timers \cup {UndeliveredUnread(h) : h \in W \ UserPrompts}
    BY Zenon DEF Push
  <1>2. \A h : UndeliveredUnread(h) \subseteq Ids'
    BY DEF UndeliveredUnread
  <1>3. /\ Ids \subseteq Ids' /\ typed \subseteq Ids /\ delivered \subseteq Ids
        /\ timers \subseteq SUBSET Ids
    BY DEF TypeOK, PostsKept
  <1>4. /\ UNION {UndeliveredUnread(h) : h \in W} \subseteq Ids'
        /\ UNION {UndeliveredUnread(h) : h \in W \cap UserPrompts}
                \subseteq UNION {UndeliveredUnread(h) : h \in W}
        /\ {UndeliveredUnread(h) : h \in W \ UserPrompts} \subseteq SUBSET Ids'
    BY <1>2
  <1>5. timers' \subseteq timers \cup SUBSET typed'
    <2>1. \A h \in W : UndeliveredUnread(h) \subseteq typed'
      BY <1>1
    <2>. QED  BY <1>1, <2>1
  <1>. QED  BY <1>1, <1>3, <1>4, <1>5

LEMMA NotifiedCall ==
    ASSUME TypeOK, NEW H, NEW type, NEW c \in Calls,
           NEW f, f = Notified(H, type)
    PROVE  /\ f \in [Calls -> CallState]
           /\ f[c].op = calls[c].op /\ f[c].handle = calls[c].handle
           /\ f[c].types = calls[c].types /\ f[c].thread = calls[c].thread
           /\ f[c].pc = "waiting" =>
                calls[c].pc = "waiting" /\ ~(calls[c].handle \in H /\ type \in calls[c].types)
  <1>1. \A d \in Calls : calls[d] \in CallState
    BY DEF TypeOK
  <1>. QED  BY <1>1 DEF Notified, CallState

(* A call that goes on sleeping, or was woken or ended, sleeps over nothing  *)
(* it did not sleep over before, as long as each new message is either of no *)
(* interest to it or an escalation.                                          *)
StillAsleep(c) ==
    /\ calls'[c].op = calls[c].op /\ calls'[c].handle = calls[c].handle
    /\ calls'[c].types = calls[c].types /\ calls'[c].thread = calls[c].thread
    /\ calls[c].pc = "waiting"

NotForCall(c, i) ==
    \/ posts'[i].type = "escalation"
    \/ posts'[i].to # calls[c].handle
    \/ calls[c].op = "check" /\ (posts'[i].type \notin calls[c].types \/ i \in read')
    \/ calls[c].op # "check" /\ posts'[i].thread # calls[c].thread

LEMMA SleepsOn ==
    ASSUME TypeOK, PostsKept, NEW c \in Calls, StillAsleep(c), Wanted(c) = {},
           present' \subseteq Ids',
           \A i \in present' \cap Ids : i \in present /\ (i \in read => i \in read'),
           \A i \in present' \ Ids : NotForCall(c, i)
    PROVE  Wanted(c)' = {}
  <1>. SUFFICES ASSUME NEW i \in Wanted(c)'
                PROVE  FALSE
    OBVIOUS
  <1>1. /\ i \in present' /\ posts'[i].type # "escalation"
        /\ posts'[i].to = calls[c].handle
        /\ calls[c].op = "check" => posts'[i].type \in calls[c].types /\ i \notin read'
        /\ calls[c].op # "check" => posts'[i].thread = calls[c].thread /\ i > calls[c].thread
    BY DEF Wanted, UnreadMessages, ThreadMessagesFor, StillAsleep
  <1>2. CASE i \in Ids
    <2>1. posts'[i] = posts[i] /\ i \in present /\ (i \in read => i \in read')
      BY <1>1, <1>2 DEF PostsKept
    <2>. QED  BY <1>1, <2>1 DEF Wanted, UnreadMessages, ThreadMessagesFor
  <1>3. CASE i \notin Ids
    BY <1>1, <1>3 DEF NotForCall
  <1>. QED  BY <1>2, <1>3

(* The invariant of the calls after a step in which no call falls asleep. *)
CallsSleepOn ==
    \A c \in Calls : calls'[c].pc = "waiting" =>
        /\ StillAsleep(c)
        /\ \A i \in present' \ Ids : NotForCall(c, i)

LEMMA CallsStep ==
    ASSUME IInv, PostsKept, CallsSleepOn, present' \subseteq Ids',
           \A i \in present' \cap Ids : i \in present /\ (i \in read => i \in read')
    PROVE  NobodySleepsOverMail'
  <1>1. ASSUME NEW c \in Calls, Waiting(c)'
        PROVE  Wanted(c)' = {} /\ StillAsleep(c) /\ Waiting(c)
    <2>1. StillAsleep(c) /\ Waiting(c) /\ \A i \in present' \ Ids : NotForCall(c, i)
      BY <1>1 DEF CallsSleepOn, Waiting, StillAsleep
    <2>2. Wanted(c) = {}
      BY <2>1 DEF IInv, NobodySleepsOverMail
    <2>. QED  BY <2>1, <2>2, SleepsOn DEF IInv
  <1>2. NobodySleepsOverMail'
    BY <1>1 DEF NobodySleepsOverMail
  <1>. QED  BY <1>2

(* Which calls sleep on after a message to the handles H was announced. *)
LEMMA AnnouncedCalls ==
    ASSUME IInv, NEW H, NEW type \in MessageTypes, calls' = Notified(H, type),
           \A i \in present' \ Ids : posts'[i].type = type /\ posts'[i].to \in H
    PROVE  CallsSleepOn /\ calls' \in [Calls -> CallState]
  <1>0. IInv => TypeOK
    BY DEF IInv
  <1>1. ASSUME NEW c \in Calls, calls'[c].pc = "waiting", NEW i \in present' \ Ids
        PROVE  NotForCall(c, i)
    <2>1. calls[c].pc = "waiting" /\ ~(calls[c].handle \in H /\ type \in calls[c].types)
      BY <1>0, <1>1, NotifiedCall
    <2>2. calls[c].op \in {"check", "ask"}
      BY <1>0 DEF TypeOK, CallState
    <2>3. calls[c].op = "ask" => calls[c].types = MessageTypes
      BY <1>0 DEF TypeOK, CallState
    <2>. QED  BY <2>1, <2>2, <2>3 DEF NotForCall
  <1>2. \A c \in Calls : calls'[c].pc = "waiting" => StillAsleep(c)
    BY <1>0, NotifiedCall DEF StillAsleep
  <1>3. calls' \in [Calls -> CallState]
    <2>1. \A d \in Calls : calls[d] \in CallState
      BY <1>0 DEF TypeOK
    <2>. QED  BY <2>1 DEF Notified, CallState
  <1>. QED  BY <1>1, <1>2, <1>3 DEF CallsSleepOn

-----------------------------------------------------------------------------
(* The inductive step, one lemma per action *)

(* A step that inserts nothing, lets no call fall asleep and reads no less. *)
LEMMA QuietStep ==
    ASSUME IInv, posts' = posts, present' = present, read \subseteq read',
           \A c \in Calls : calls'[c].pc = "waiting" => StillAsleep(c)
    PROVE  NobodySleepsOverMail'
  <1>1. PostsKept /\ Ids' = Ids
    BY PostsUnchanged DEF IInv
  <1>2. CallsSleepOn /\ present' \subseteq Ids'
    BY <1>1 DEF CallsSleepOn, IInv, TypeOK
  <1>. QED  BY <1>1, <1>2, CallsStep

LEMMA Asleep ==
    ASSUME UNCHANGED calls
    PROVE  \A c \in Calls : calls'[c].pc = "waiting" => StillAsleep(c)
  BY DEF StillAsleep

(* The rows, marks and histories of a step, apart from the calls. *)
RowTypes ==
    /\ posts \in Seq(Header) /\ Len(posts) <= MaxMessages
    /\ present \subseteq Ids /\ read \subseteq Ids /\ delivered \subseteq Ids
    /\ timers \subseteq SUBSET Ids
    /\ inProgress \in BOOLEAN
    /\ given \subseteq Ids /\ typed \subseteq Ids

LEMMA SplitType ==
    /\ TypeOK <=> /\ RowTypes /\ calls \in [Calls -> CallState]
                  /\ term \in [Handles -> {"busy", "idle", "gone"}]
    /\ TypeOK' <=> /\ RowTypes' /\ calls' \in [Calls -> CallState]
                   /\ term' \in [Handles -> {"busy", "idle", "gone"}]
  BY DEF TypeOK, RowTypes

(* What a batch withdraws are heartbeats of a dispatch that is then over. *)
LEMMA Withdrawn ==
    ASSUME TypeOK, PostsKept, NEW S \in SUBSET Ids', present' \subseteq Ids',
           inProgress' = (inProgress /\ Accepted(S) = {}),
           NEW w, w = Obsolete(S) \cup Superseded(Accepted(S))
    PROVE  /\ inProgress' \in BOOLEAN
           /\ w \subseteq Ids'
           /\ \A i \in w : posts'[i].type = "heartbeat" /\ ~inProgress'
           /\ inProgress' => inProgress
  <1>1. /\ Obsolete(S) \subseteq S /\ Superseded(Accepted(S)) \subseteq present'
        /\ \A i \in Obsolete(S) \cup Superseded(Accepted(S)) : posts'[i].type = "heartbeat"
    BY DEF Obsolete, Superseded
  <1>2. ASSUME NEW i \in Obsolete(S) PROVE ~inProgress'
    BY <1>2 DEF Obsolete
  <1>3. ASSUME NEW i \in Superseded(Accepted(S)) PROVE ~inProgress'
    BY <1>3 DEF Superseded
  <1>. QED  BY <1>1, <1>2, <1>3 DEF TypeOK

WithdrawnNow == IF inProgress THEN {} ELSE {i \in Ids : posts[i].type = "heartbeat"}

LEMMA LossDef ==
    /\ NothingIsLost <=> /\ read \subseteq given \cup WithdrawnNow
                         /\ delivered \subseteq typed \cup WithdrawnNow
    /\ NothingIsLost' <=> /\ read' \subseteq given' \cup WithdrawnNow'
                          /\ delivered' \subseteq typed' \cup WithdrawnNow'
  BY Zenon DEF NothingIsLost, WithdrawnNow

(* Heartbeats stay withdrawn: a dispatch that is over stays over. *)
LEMMA WithdrawnKept ==
    ASSUME PostsKept, inProgress' => inProgress
    PROVE  WithdrawnNow \subseteq WithdrawnNow'
  BY DEF WithdrawnNow, PostsKept

(* Marks of rows that are read, typed and withdrawn add up. *)
LEMMA LossStep ==
    ASSUME IInv, PostsKept, inProgress' => inProgress,
           NEW w \in SUBSET Ids', \A i \in w : posts'[i].type = "heartbeat" /\ ~inProgress',
           given \subseteq given', typed \subseteq typed',
           read' \subseteq read \cup (given' \cup w),
           delivered' \subseteq delivered \cup (typed' \cup w),
           timers' \subseteq timers \cup SUBSET typed', present' \cap Ids \subseteq present
    PROVE  NothingIsLost' /\ PushesAreTyped'
  <1>1. w \subseteq WithdrawnNow' /\ WithdrawnNow \subseteq WithdrawnNow'
    BY WithdrawnKept DEF WithdrawnNow
  <1>2. read \subseteq given \cup WithdrawnNow /\ delivered \subseteq typed \cup WithdrawnNow
    BY LossDef DEF IInv
  <1>3. NothingIsLost'
    BY <1>1, <1>2, LossDef
  <1>4. ASSUME NEW ids \in timers'
        PROVE  ids \cap present' \subseteq typed'
    <2>1. CASE ids \in timers
      BY <2>1 DEF IInv, TypeOK, PushesAreTyped
    <2>2. CASE ids \subseteq typed'
      BY <2>2
    <2>. QED  BY <1>4, <2>1, <2>2
  <1>. QED  BY <1>3, <1>4 DEF PushesAreTyped

LEMMA TakeStep ==
    ASSUME IInv, NEW h, NEW types, Take(h, types), UNCHANGED pushes
    PROVE  /\ RowTypes' /\ TakenOnce' /\ NothingIsLost' /\ PushesAreTyped'
           /\ posts' = posts /\ present' = present /\ read \subseteq read'
  <1>. DEFINE batch == UnreadMessages(h, types)
              w == Obsolete(batch) \cup Superseded(Accepted(batch))
  <1>1. /\ posts' = posts /\ present' = present
        /\ given' = given \cup batch /\ read' = read \cup batch \cup w
        /\ delivered' = delivered \cup w
        /\ inProgress' = (inProgress /\ Accepted(batch) = {})
    BY Zenon DEF Take
  <1>2. PostsKept /\ Ids' = Ids /\ batch \subseteq present /\ present \subseteq Ids
    BY <1>1, PostsUnchanged DEF IInv, UnreadMessages, TypeOK
  <1>3. /\ inProgress' \in BOOLEAN /\ w \subseteq Ids' /\ (inProgress' => inProgress)
        /\ \A i \in w : posts'[i].type = "heartbeat" /\ ~inProgress'
    <2>1. batch \in SUBSET Ids' /\ present' \subseteq Ids' /\ TypeOK
      BY <1>1, <1>2 DEF IInv
    <2>. HIDE DEF batch
    <2>. QED  BY <1>1, <1>2, <2>1, Withdrawn
  <1>. HIDE DEF w, batch
  <1>4. RowTypes'
    BY <1>1, <1>2, <1>3 DEF RowTypes, IInv, TypeOK, pushes, PostsKept
  <1>5. TakenOnce'
    BY <1>1 DEF TakenOnce, IInv
  <1>6. NothingIsLost' /\ PushesAreTyped'
    BY <1>1, <1>2, <1>3, LossStep DEF pushes
  <1>. QED  BY <1>1, <1>4, <1>5, <1>6

LEMMA CheckStep ==
    ASSUME IInv, NEW c \in Calls, NEW h, NEW types, Check(c, h, types)
    PROVE  IInv'
  <1>1. Take(h, types) /\ UNCHANGED <<term, timers, typed, calls>>
    BY DEF Check, pushes
  <1>2. /\ RowTypes' /\ TakenOnce' /\ NothingIsLost' /\ PushesAreTyped'
        /\ posts' = posts /\ present' = present /\ read \subseteq read'
    BY <1>1, TakeStep DEF pushes
  <1>3. TypeOK'
    BY <1>1, <1>2, SplitType DEF IInv
  <1>4. NobodySleepsOverMail'
    BY <1>1, <1>2, QuietStep, Asleep
  <1>. QED  BY <1>2, <1>3, <1>4 DEF IInv

LEMMA ReturnStep ==
    ASSUME IInv, NEW c \in Calls, Return(c)
    PROVE  /\ calls' \in [Calls -> CallState]
           /\ \A d \in Calls : calls'[d].pc = "waiting" => StillAsleep(d)
  <1>1. Idle \in CallState /\ Idle.pc = "free"
    BY HandlesAssumption, RoomAssumption DEF Idle, CallState
  <1>2. calls \in [Calls -> CallState]
    BY DEF IInv, TypeOK
  <1>. QED  BY <1>1, <1>2 DEF Return, StillAsleep

LEMMA ResumeCheckStep ==
    ASSUME IInv, NEW c \in Calls, ResumeCheck(c)
    PROVE  IInv'
  <1>1. Return(c) /\ UNCHANGED <<term, timers, typed>>
    BY DEF ResumeCheck, pushes
  <1>2. /\ RowTypes' /\ TakenOnce' /\ NothingIsLost' /\ PushesAreTyped'
        /\ posts' = posts /\ present' = present /\ read \subseteq read'
    <2>1. CASE calls[c].pc = "aborted"
      <3>1. UNCHANGED <<posts, present, read, delivered, inProgress, given, timers, typed>>
        BY <2>1, <1>1 DEF ResumeCheck, rows
      <3>. QED  BY <3>1 DEF IInv, TypeOK, RowTypes, TakenOnce, NothingIsLost, PushesAreTyped, Ids
    <2>2. CASE calls[c].pc # "aborted"
      BY <2>2, <1>1, TakeStep DEF ResumeCheck, pushes
    <2>. QED  BY <2>1, <2>2
  <1>3. /\ calls' \in [Calls -> CallState]
        /\ \A d \in Calls : calls'[d].pc = "waiting" => StillAsleep(d)
    BY <1>1, ReturnStep
  <1>4. TypeOK'
    BY <1>1, <1>2, <1>3, SplitType DEF IInv
  <1>. QED  BY <1>2, <1>3, <1>4, QuietStep DEF IInv

LEMMA SendStep ==
    ASSUME IInv, NEW from \in Handles, NEW to \in Handles, NEW type \in MessageTypes,
           Send(from, to, type)
    PROVE  IInv'
  <1>. DEFINE n == Len(posts) + 1
              w == Obsolete({n}) \cup Superseded(Accepted({n}))
  <1>1. TypeOK
    BY DEF IInv
  <1>2. Message(from, to, type, 0) \in Header
    BY RoomAssumption DEF Message, Header
  <1>3. /\ PostsKept /\ n \notin Ids /\ Ids' = Ids \cup {n}
        /\ present' = present \cup {n}
        /\ posts'[n] = Message(from, to, type, 0)
    <2>1. Insert(<<Message(from, to, type, 0)>>)
      BY DEF Send
    <2>. QED  BY <1>1, <1>2, <2>1, InsertOne
  <1>4. posts'[n].type = type /\ posts'[n].to = to /\ posts'[n].thread = 0
    BY <1>3 DEF Message
  <1>5. /\ inProgress' = (inProgress /\ Accepted({n}) = {})
        /\ read' = read \cup w
        /\ term' = term /\ given' = given
        /\ \/ /\ Obsolete({n}) # {}
              /\ delivered' = delivered \cup w
              /\ UNCHANGED pushes /\ UNCHANGED calls
           \/ /\ Push({to}, w) /\ calls' = Notified({to}, type)
    BY DEF Send, NoPush
  <1>6. {n} \in SUBSET Ids' /\ present' \subseteq Ids'
    BY <1>1, <1>3 DEF TypeOK
  <1>7. /\ inProgress' \in BOOLEAN /\ w \in SUBSET Ids' /\ (inProgress' => inProgress)
        /\ \A i \in w : posts'[i].type = "heartbeat" /\ ~inProgress'
    BY <1>1, <1>3, <1>5, <1>6, Withdrawn
  <1>8. Obsolete({n}) # {} => n \in w
    BY DEF Obsolete
  <1>. HIDE DEF n, w
  <1>9. /\ typed \subseteq typed' /\ typed' \subseteq Ids' /\ delivered' \subseteq Ids'
        /\ delivered' \subseteq delivered \cup (typed' \cup w)
        /\ timers' \subseteq SUBSET Ids' /\ timers' \subseteq timers \cup SUBSET typed'
    <2>1. CASE UNCHANGED pushes /\ delivered' = delivered \cup w
      BY <1>1, <1>3, <1>7, <2>1 DEF TypeOK, pushes
    <2>2. CASE Push({to}, w)
      <3>1. {to} \in SUBSET Handles
        OBVIOUS
      <3>2. delivered' \subseteq delivered \cup w \cup typed'
        BY <1>1, <1>3, <1>6, <1>7, <2>2, <3>1, PushStep
      <3>. QED  BY <1>1, <1>3, <1>6, <1>7, <2>2, <3>1, <3>2, PushStep
    <2>. QED  BY <1>5, <2>1, <2>2
  <1>10. RowTypes'
    BY <1>1, <1>3, <1>5, <1>6, <1>7, <1>9 DEF RowTypes, TypeOK, PostsKept
  <1>11. CallsSleepOn /\ calls' \in [Calls -> CallState]
    <2>1. present' \ Ids \subseteq {n}
      BY <1>1, <1>3 DEF TypeOK
    <2>2. CASE Obsolete({n}) # {} /\ UNCHANGED calls
      <3>1. n \in read'
        BY <2>2, <1>5, <1>8
      <3>2. ASSUME NEW c \in Calls, calls[c].pc = "waiting"
            PROVE  NotForCall(c, n)
        BY <3>1, <3>2, <1>1, <1>4 DEF NotForCall, IInv, TypeOK,
                                      CallState
      <3>. QED  BY <2>1, <2>2, <3>2, <1>1 DEF CallsSleepOn, StillAsleep, TypeOK
    <2>3. CASE calls' = Notified({to}, type)
      BY <2>1, <2>3, <1>4, AnnouncedCalls
    <2>. QED  BY <1>5, <2>2, <2>3
  <1>12. TypeOK'
    BY <1>1, <1>5, <1>10, <1>11, SplitType
  <1>13. NobodySleepsOverMail'
    BY <1>1, <1>3, <1>5, <1>6, <1>11, CallsStep DEF TypeOK
  <1>14. TakenOnce'
    BY <1>1, <1>3, <1>5 DEF TakenOnce, IInv, TypeOK
  <1>15. NothingIsLost' /\ PushesAreTyped'
    <2>1. present' \cap Ids \subseteq present
      BY <1>3
    <2>. QED  BY <1>3, <1>5, <1>7, <1>9, <2>1, LossStep
  <1>. QED  BY <1>12, <1>13, <1>14, <1>15 DEF IInv

(* A step that inserts rows and announces all of them, pushing them or not.  *)
LEMMA AnnounceStep ==
    ASSUME IInv, PostsKept, NEW H \in SUBSET Handles, NEW type \in MessageTypes,
           NEW g \in SUBSET Ids,
           calls' = Notified(H, type),
           \A i \in Ids' \ Ids : posts'[i].type = type /\ posts'[i].to \in H,
           present' = present \cup (Ids' \ Ids),
           given' = given \cup g, read' = read \cup g,
           term' = term, inProgress' = inProgress,
           Push(H, {}) \/ UNCHANGED <<delivered, timers, typed>>
    PROVE  IInv'
  <1>1. TypeOK /\ Ids \subseteq Ids'
    BY DEF IInv, PostsKept
  <1>2. present' \subseteq Ids'
    BY <1>1 DEF TypeOK
  <1>3. /\ typed \subseteq typed' /\ typed' \subseteq Ids' /\ delivered' \subseteq Ids'
        /\ delivered' \subseteq delivered \cup (typed' \cup {})
        /\ timers' \subseteq SUBSET Ids' /\ timers' \subseteq timers \cup SUBSET typed'
    <2>1. CASE Push(H, {})
      BY <1>1, <1>2, <2>1, PushStep
    <2>2. CASE UNCHANGED <<delivered, timers, typed>>
      BY <1>1, <2>2 DEF TypeOK
    <2>. QED  BY <2>1, <2>2
  <1>4. RowTypes'
    BY <1>1, <1>2, <1>3 DEF RowTypes, TypeOK, PostsKept
  <1>5. CallsSleepOn /\ calls' \in [Calls -> CallState]
    <2>1. present' \ Ids \subseteq Ids' \ Ids
      BY <1>2
    <2>. QED  BY <2>1, AnnouncedCalls
  <1>6. TypeOK'
    BY <1>1, <1>4, <1>5, SplitType
  <1>7. NobodySleepsOverMail'
    BY <1>1, <1>2, <1>5, CallsStep
  <1>8. TakenOnce'
    BY <1>1 DEF TakenOnce, IInv, TypeOK
  <1>9. NothingIsLost' /\ PushesAreTyped'
    <2>1. {} \in SUBSET Ids' /\ present' \cap Ids \subseteq present /\ read' \subseteq read \cup (given' \cup {})
      OBVIOUS
    <2>. QED  BY <1>3, <2>1, LossStep
  <1>. QED  BY <1>6, <1>7, <1>8, <1>9 DEF IInv

LEMMA FunctionIsSequence ==
    ASSUME NEW S, NEW n \in Nat, NEW f \in [1 .. n -> S]
    PROVE  f \in Seq(S) /\ Len(f) = n
  BY SeqDef

LEMMA SendToGroupStep ==
    ASSUME IInv, NEW from \in Handles, NEW R \in SUBSET Handles, NEW type \in MessageTypes,
           SendToGroup(from, R, type)
    PROVE  IInv'
  <1>1. PICK order \in [1 .. Cardinality(R) -> R] :
            Insert([k \in DOMAIN order |-> Message(from, order[k], type, 0)])
    BY DEF SendToGroup
  <1>. DEFINE headers == [k \in DOMAIN order |-> Message(from, order[k], type, 0)]
  <1>2. Cardinality(R) \in Nat
    BY HandlesAssumption, FS_Subset, FS_CardinalityType
  <1>3. headers \in [1 .. Cardinality(R) -> Header]
    BY RoomAssumption DEF Message, Header
  <1>4. headers \in Seq(Header) /\ Len(headers) = Cardinality(R)
    BY <1>2, <1>3, FunctionIsSequence
  <1>5. \A k \in 1 .. Cardinality(R) : headers[k].type = type /\ headers[k].to \in R
    BY DEF Message
  <1>6. Insert(headers)
    BY <1>1
  <1>. HIDE DEF headers
  <1>7. /\ PostsKept /\ present' = present \cup (Ids' \ Ids)
        /\ Ids' \ Ids = Len(posts) + 1 .. Len(posts) + Cardinality(R)
        /\ Len(posts) \in Nat
        /\ \A i \in Ids' \ Ids : posts'[i] = headers[i - Len(posts)]
    BY <1>4, <1>6, InsertStep DEF IInv
  <1>8. \A i \in Ids' \ Ids : posts'[i].type = type /\ posts'[i].to \in R
    BY <1>2, <1>5, <1>7
  <1>9. /\ UNCHANGED <<read, term, inProgress, given>> /\ Push(R, {})
        /\ calls' = Notified(R, type)
    BY DEF SendToGroup
  <1>10. {} \in SUBSET Ids /\ given' = given \cup {} /\ read' = read \cup {}
    BY <1>9
  <1>. QED  BY <1>7, <1>8, <1>9, <1>10, AnnounceStep

LEMMA ReplyStep ==
    ASSUME IInv, NEW i \in present, Reply(i)
    PROVE  IInv'
  <1>. DEFINE thread == IF posts[i].thread = 0 THEN i ELSE posts[i].thread
              m == Message(posts[i].to, posts[i].from, "status", thread)
  <1>1. TypeOK /\ i \in Ids
    BY DEF IInv, TypeOK
  <1>2. posts[i] \in Header /\ i \in 1 .. MaxMessages
    BY <1>1, LenProperties, RoomAssumption DEF TypeOK, Ids
  <1>3. m \in Header
    <2>1. /\ posts[i].to \in Handles /\ posts[i].from \in Handles
          /\ posts[i].thread \in 0 .. MaxMessages /\ "status" \in MessageTypes
      BY <1>2 DEF Header, MessageTypes
    <2>2. thread \in 0 .. MaxMessages
      BY <1>2, <2>1
    <2>. HIDE DEF thread
    <2>. QED  BY <2>1, <2>2 DEF Message, Header
  <1>4. Insert(<<m>>)
    BY DEF Reply
  <1>5. m.type = "status" /\ m.to = posts[i].from /\ posts[i].from \in Handles
    BY <1>2 DEF Message, Header
  <1>. HIDE DEF m
  <1>6. /\ PostsKept /\ present' = present \cup (Ids' \ Ids)
        /\ \A j \in Ids' \ Ids : posts'[j] = m
    BY <1>1, <1>3, <1>4, InsertOne
  <1>7. /\ calls' = Notified({posts[i].from}, "status")
        /\ given' = given \cup {i} /\ read' = read \cup {i}
        /\ UNCHANGED <<delivered, term, timers, typed, inProgress>>
    BY DEF Reply, pushes
  <1>8. "status" \in MessageTypes /\ {posts[i].from} \in SUBSET Handles /\ {i} \in SUBSET Ids
    BY <1>1, <1>5 DEF MessageTypes
  <1>. QED  BY <1>5, <1>6, <1>7, <1>8, AnnounceStep

(* A step that leaves the table, its marks and its histories alone. *)
LEMMA MarksKept ==
    ASSUME IInv, UNCHANGED <<rows, inProgress, given, typed>>
    PROVE  /\ PostsKept /\ Ids' = Ids
           /\ TakenOnce' /\ NothingIsLost'
           /\ timers' \subseteq SUBSET Ids => RowTypes'
           /\ timers' \subseteq timers => PushesAreTyped'
           /\ (\A c \in Calls : calls'[c].pc = "waiting" => StillAsleep(c)) =>
                    NobodySleepsOverMail'
  <1>1. PostsKept /\ Ids' = Ids
    BY PostsUnchanged DEF IInv, rows
  <1>2. TakenOnce' /\ NothingIsLost'
    BY <1>1 DEF IInv, TakenOnce, NothingIsLost, rows
  <1>3. timers' \subseteq SUBSET Ids => RowTypes'
    BY <1>1 DEF IInv, TypeOK, RowTypes, rows
  <1>4. ASSUME \A c \in Calls : calls'[c].pc = "waiting" => StillAsleep(c)
        PROVE  NobodySleepsOverMail'
    BY <1>4, QuietStep DEF rows
  <1>5. timers' \subseteq timers => PushesAreTyped'
    BY DEF IInv, PushesAreTyped, rows
  <1>. QED  BY <1>1, <1>2, <1>3, <1>4, <1>5

LEMMA WakeUpStep ==
    ASSUME IInv, NEW c \in Calls, NEW why \in {"timedout", "aborted"}, WakeUp(c, why)
    PROVE  IInv'
  <1>1. /\ UNCHANGED <<rows, inProgress, given, typed, term, timers>>
        /\ calls' = [calls EXCEPT ![c].pc = why]
    BY DEF WakeUp, pushes
  <1>2. calls \in [Calls -> CallState] /\ timers \subseteq SUBSET Ids
    BY DEF IInv, TypeOK
  <1>3. /\ calls' \in [Calls -> CallState]
        /\ \A d \in Calls : calls'[d].pc = "waiting" => StillAsleep(d)
    BY <1>1, <1>2 DEF CallState, StillAsleep
  <1>4. TypeOK'
    BY <1>1, <1>2, <1>3, MarksKept, SplitType DEF IInv
  <1>. QED  BY <1>1, <1>3, <1>4, MarksKept DEF IInv

LEMMA DispatchEndsStep ==
    ASSUME IInv, DispatchEnds
    PROVE  IInv'
  <1>1. /\ UNCHANGED <<rows, given, typed, term, timers, calls>> /\ inProgress' = FALSE
    BY DEF DispatchEnds, pushes
  <1>2. TypeOK /\ PostsKept /\ Ids' = Ids
    BY <1>1, PostsUnchanged DEF IInv, rows
  <1>3. TypeOK' /\ TakenOnce'
    BY <1>1, <1>2 DEF TypeOK, IInv, TakenOnce, rows
  <1>4. NothingIsLost' /\ PushesAreTyped'
    <2>1. /\ (inProgress' => inProgress) /\ given \subseteq given' /\ typed \subseteq typed'
          /\ {} \in SUBSET Ids' /\ read' \subseteq read \cup (given' \cup {})
          /\ delivered' \subseteq delivered \cup (typed' \cup {})
          /\ timers' \subseteq timers \cup SUBSET typed' /\ present' \cap Ids \subseteq present
      BY <1>1 DEF rows
    <2>2. \A i \in {} : posts'[i].type = "heartbeat" /\ ~inProgress'
      OBVIOUS
    <2>. QED  BY <1>2, <2>1, <2>2, LossStep
  <1>5. NobodySleepsOverMail'
    BY <1>1, QuietStep, Asleep DEF rows
  <1>. QED  BY <1>3, <1>4, <1>5 DEF IInv

(* Terminals that change, and nothing else. *)
LEMMA TerminalStep ==
    ASSUME IInv, UNCHANGED <<rows, pushes, calls, inProgress, given>>,
           term' \in [Handles -> {"busy", "idle", "gone"}]
    PROVE  IInv'
  <1>1. /\ UNCHANGED <<rows, inProgress, given, typed>> /\ timers' = timers /\ calls' = calls
        /\ TypeOK /\ timers \subseteq SUBSET Ids /\ calls \in [Calls -> CallState]
    BY DEF pushes, IInv, TypeOK
  <1>2. TypeOK'
    BY <1>1, MarksKept, SplitType
  <1>. QED  BY <1>1, <1>2, MarksKept, Asleep DEF IInv

LEMMA RestartStep ==
    ASSUME IInv, Restart
    PROVE  IInv'
  <1>1. /\ UNCHANGED <<rows, inProgress, given, typed>> /\ timers' = {}
        /\ calls' = [c \in Calls |-> Idle]
        /\ term' \in [Handles -> {"busy", "idle", "gone"}]
    BY DEF Restart
  <1>2. Idle \in CallState /\ Idle.pc = "free"
    BY HandlesAssumption, RoomAssumption DEF Idle, CallState
  <1>3. /\ calls' \in [Calls -> CallState]
        /\ \A c \in Calls : calls'[c].pc = "waiting" => StillAsleep(c)
    BY <1>1, <1>2
  <1>4. TypeOK'
    BY <1>1, <1>3, MarksKept, SplitType DEF IInv
  <1>. QED  BY <1>1, <1>3, <1>4, MarksKept DEF IInv

LEMMA BecomesIdleStep ==
    ASSUME IInv, NEW h \in Handles, BecomesIdle(h)
    PROVE  IInv'
  <1>1. /\ UNCHANGED <<posts, present, read, calls, inProgress, given>> /\ Push({h}, {})
        /\ term' = [term EXCEPT ![h] = "idle"]
    BY DEF BecomesIdle
  <1>2. TypeOK /\ PostsKept /\ Ids' = Ids /\ present' \subseteq Ids'
    BY <1>1, PostsUnchanged DEF IInv, TypeOK
  <1>3. /\ typed \subseteq typed' /\ typed' \subseteq Ids' /\ delivered' \subseteq Ids'
        /\ delivered' \subseteq delivered \cup (typed' \cup {})
        /\ timers' \subseteq SUBSET Ids' /\ timers' \subseteq timers \cup SUBSET typed'
    <2>1. {h} \in SUBSET Handles /\ {} \in SUBSET Ids'
      OBVIOUS
    <2>. QED  BY <1>1, <1>2, <2>1, PushStep
  <1>4. TypeOK' /\ TakenOnce'
    BY <1>1, <1>2, <1>3 DEF TypeOK, IInv, TakenOnce
  <1>5. NothingIsLost' /\ PushesAreTyped'
    <2>1. /\ present' \cap Ids \subseteq present /\ given \subseteq given' /\ {} \in SUBSET Ids'
          /\ read' \subseteq read \cup (given' \cup {}) /\ (inProgress' => inProgress)
          /\ \A i \in {} : posts'[i].type = "heartbeat" /\ ~inProgress'
      BY <1>1
    <2>. QED  BY <1>2, <1>3, <2>1, LossStep
  <1>. QED  BY <1>1, <1>4, <1>5, QuietStep, Asleep DEF IInv

LEMMA SubmitStep ==
    ASSUME IInv, NEW ids \in timers, NEW wrote, Submit(ids, wrote)
    PROVE  IInv'
  <1>1. /\ UNCHANGED <<posts, present, read, term, calls, inProgress, given, typed>>
        /\ timers' = timers \ {ids}
        /\ delivered' \subseteq delivered \cup (ids \cap present)
    BY DEF Submit
  <1>2. TypeOK /\ PostsKept /\ Ids' = Ids
    BY <1>1, PostsUnchanged DEF IInv
  <1>3. ids \cap present \subseteq typed /\ typed \subseteq Ids
    BY DEF IInv, PushesAreTyped, TypeOK
  <1>4. TypeOK' /\ TakenOnce'
    BY <1>1, <1>2, <1>3 DEF TypeOK, IInv, TakenOnce
  <1>5. NothingIsLost' /\ PushesAreTyped'
    <2>1. /\ present' \cap Ids \subseteq present /\ given \subseteq given' /\ {} \in SUBSET Ids'
          /\ read' \subseteq read \cup (given' \cup {}) /\ (inProgress' => inProgress)
          /\ \A i \in {} : posts'[i].type = "heartbeat" /\ ~inProgress'
          /\ typed \subseteq typed' /\ timers' \subseteq timers \cup SUBSET typed'
          /\ delivered' \subseteq delivered \cup (typed' \cup {})
      BY <1>1, <1>3
    <2>. QED  BY <1>2, <2>1, LossStep
  <1>. QED  BY <1>1, <1>4, <1>5, QuietStep, Asleep DEF IInv

LEMMA ResetMessagesStep ==
    ASSUME IInv, ResetMessages
    PROVE  IInv'
  <1>1. /\ UNCHANGED <<posts, term, timers, calls, inProgress>>
        /\ present' = {} /\ read' = {} /\ delivered' = {} /\ given' = {} /\ typed' = {}
    BY DEF ResetMessages
  <1>2. TypeOK /\ PostsKept /\ Ids' = Ids
    BY <1>1, PostsUnchanged DEF IInv
  <1>3. TypeOK' /\ TakenOnce' /\ PushesAreTyped'
    BY <1>1, <1>2 DEF TypeOK, IInv, TakenOnce, PushesAreTyped
  <1>4. NothingIsLost'
    BY <1>1, LossDef
  <1>5. CallsSleepOn
    BY <1>1, Asleep DEF CallsSleepOn
  <1>6. NobodySleepsOverMail'
    BY <1>1, <1>2, <1>5, CallsStep
  <1>. QED  BY <1>3, <1>4, <1>6 DEF IInv

LEMMA ExitStep ==
    ASSUME IInv, NEW h \in Handles, Exit(h)
    PROVE  IInv'
  <1>1. /\ UNCHANGED <<read, delivered, pushes, calls, given>>
        /\ term' = [term EXCEPT ![h] = "gone"]
    BY DEF Exit
  <1>2. TypeOK /\ term' \in [Handles -> {"busy", "idle", "gone"}]
    BY <1>1 DEF IInv, TypeOK
  <1>3. CASE UNCHANGED <<inProgress, posts, present>>
    BY <1>1, <1>2, <1>3, TerminalStep DEF rows
  <1>4. CASE inProgress' = FALSE /\ Insert(<<Message(Worker, Coordinator, "escalation", 0)>>)
    <2>. DEFINE m == Message(Worker, Coordinator, "escalation", 0)
    <2>1. m \in Header /\ m.type = "escalation"
      BY HandlesAssumption, RoomAssumption DEF Message, Header, MessageTypes
    <2>. HIDE DEF m
    <2>2. /\ PostsKept /\ Ids' = Ids \cup {Len(posts) + 1} /\ Len(posts) + 1 \notin Ids
          /\ present' = present \cup {Len(posts) + 1} /\ posts'[Len(posts) + 1] = m
      BY <1>2, <1>4, <2>1, InsertOne DEF m
    <2>3. TypeOK' /\ TakenOnce' /\ present' \subseteq Ids'
      BY <1>1, <1>2, <1>4, <2>2 DEF TypeOK, IInv, TakenOnce, PostsKept, pushes
    <2>4. NothingIsLost' /\ PushesAreTyped'
      <3>1. /\ present' \cap Ids \subseteq present /\ given \subseteq given'
            /\ {} \in SUBSET Ids' /\ typed \subseteq typed'
            /\ read' \subseteq read \cup (given' \cup {}) /\ (inProgress' => inProgress)
            /\ \A i \in {} : posts'[i].type = "heartbeat" /\ ~inProgress'
            /\ timers' \subseteq timers \cup SUBSET typed'
            /\ delivered' \subseteq delivered \cup (typed' \cup {})
        BY <1>1, <1>4, <2>2 DEF pushes
      <3>. QED  BY <2>2, <3>1, LossStep
    <2>5. CallsSleepOn
      BY <1>1, <1>2, <2>1, <2>2, Asleep DEF CallsSleepOn, NotForCall, TypeOK
    <2>6. NobodySleepsOverMail'
      BY <1>1, <2>2, <2>3, <2>5, CallsStep
    <2>. QED  BY <2>3, <2>4, <2>6 DEF IInv
  <1>. QED  BY <1>3, <1>4 DEF Exit

LEMMA CheckSleepsStep ==
    ASSUME IInv, NEW c \in Calls, NEW h \in Handles, NEW types \in Filters,
           CheckSleeps(c, h, types)
    PROVE  IInv'
  <1>. DEFINE call == [pc |-> "waiting", op |-> "check", handle |-> h, types |-> types,
                       thread |-> 0]
  <1>1. /\ UNCHANGED <<rows, inProgress, given, typed, term, timers>>
        /\ calls' = [calls EXCEPT ![c] = call]
        /\ UnreadMessages(h, types) = {}
    BY DEF CheckSleeps, pushes, Sleep
  <1>2. call \in CallState /\ calls \in [Calls -> CallState] /\ timers \subseteq SUBSET Ids
    BY TypesAssumption, RoomAssumption DEF CallState, IInv, TypeOK
  <1>3. call.op = "check" /\ call.handle = h /\ call.types = types
    OBVIOUS
  <1>. HIDE DEF call
  <1>4. TypeOK'
    BY <1>1, <1>2, MarksKept, SplitType DEF IInv
  <1>5. calls'[c] = call /\ \A d \in Calls : d # c => calls'[d] = calls[d]
    BY <1>1, <1>2
  <1>6. Wanted(c)' = {}
    BY <1>1, <1>3, <1>5 DEF Wanted, UnreadMessages, rows
  <1>7. \A d \in Calls : d # c /\ Waiting(d)' => Waiting(d) /\ Wanted(d)' = Wanted(d)
    BY <1>1, <1>5 DEF Wanted, UnreadMessages, ThreadMessagesFor, Waiting, rows
  <1>8. NobodySleepsOverMail'
    BY <1>6, <1>7 DEF NobodySleepsOverMail, IInv
  <1>. QED  BY <1>1, <1>4, <1>8, MarksKept DEF IInv

LEMMA AskStep ==
    ASSUME IInv, NEW c \in Calls, NEW from \in Handles, NEW to \in Handles, Ask(c, from, to)
    PROVE  IInv'
  <1>. DEFINE n == Len(posts) + 1
              m == Message(from, to, "decision_gate", 0)
              woken == Notified({to}, "decision_gate")
              call == [pc |-> "waiting", op |-> "ask", handle |-> from,
                       types |-> MessageTypes, thread |-> n]
  <1>1. /\ UNCHANGED <<read, term, inProgress, given>> /\ Push({to}, {})
        /\ calls' = [woken EXCEPT ![c] = call] /\ Insert(<<m>>)
    BY DEF Ask
  <1>2. TypeOK /\ m \in Header
    BY RoomAssumption DEF IInv, Message, Header, MessageTypes
  <1>3. m.type = "decision_gate" /\ m.to = to /\ m.thread = 0
    BY DEF Message
  <1>. HIDE DEF m, n
  <1>4. /\ PostsKept /\ n \notin Ids /\ Ids' = Ids \cup {n} /\ n \in 1 .. MaxMessages
        /\ present' = present \cup {n} /\ posts'[n] = m /\ present' \subseteq Ids'
        /\ Ids = 1 .. Len(posts) /\ Len(posts) \in Nat /\ present \subseteq Ids
    BY <1>1, <1>2, InsertOne DEF n, TypeOK
  <1>5. call \in CallState /\ call.op = "ask" /\ call.types = MessageTypes /\ call.thread = n
    BY <1>4 DEF CallState
  <1>6. /\ typed \subseteq typed' /\ typed' \subseteq Ids' /\ delivered' \subseteq Ids'
        /\ delivered' \subseteq delivered \cup (typed' \cup {})
        /\ timers' \subseteq SUBSET Ids' /\ timers' \subseteq timers \cup SUBSET typed'
    <2>1. {to} \in SUBSET Handles /\ {} \in SUBSET Ids'
      OBVIOUS
    <2>. QED  BY <1>1, <1>2, <1>4, <2>1, PushStep
  <1>7. woken \in [Calls -> CallState]
    BY <1>2, NotifiedCall
  <1>. HIDE DEF woken, call
  <1>8. calls'[c] = call /\ \A d \in Calls : d # c => calls'[d] = woken[d]
    BY <1>1, <1>7
  <1>9. TypeOK'
    <2>1. calls' \in [Calls -> CallState]
      BY <1>1, <1>5, <1>7
    <2>. QED  BY <1>1, <1>2, <1>4, <1>6, <2>1 DEF TypeOK, PostsKept
  <1>10. TakenOnce'
    BY <1>1, <1>2, <1>4 DEF TakenOnce, IInv, TypeOK
  <1>11. NothingIsLost' /\ PushesAreTyped'
    <2>1. /\ present' \cap Ids \subseteq present /\ given \subseteq given'
          /\ {} \in SUBSET Ids' /\ (inProgress' => inProgress)
          /\ read' \subseteq read \cup (given' \cup {})
          /\ \A i \in {} : posts'[i].type = "heartbeat" /\ ~inProgress'
      BY <1>1, <1>4
    <2>. QED  BY <1>4, <1>6, <2>1, LossStep
  <1>12. ASSUME NEW d \in Calls, d # c, Waiting(d)'
         PROVE  StillAsleep(d) /\ Wanted(d)' = {}
    <2>1. /\ StillAsleep(d)
          /\ ~(calls[d].handle \in {to} /\ "decision_gate" \in calls[d].types)
      BY <1>2, <1>8, <1>12, NotifiedCall DEF woken, Waiting, StillAsleep
    <2>2. calls[d].op \in {"check", "ask"} /\ Waiting(d)
      BY <1>2, <2>1 DEF TypeOK, CallState, Waiting, StillAsleep
    <2>3. calls[d].op = "ask" => calls[d].types = MessageTypes
      BY <1>2 DEF TypeOK, CallState
    <2>4. NotForCall(d, n)
      BY <1>3, <1>4, <2>1, <2>2, <2>3 DEF NotForCall, MessageTypes
    <2>5. Wanted(d) = {}
      BY <2>2 DEF IInv, NobodySleepsOverMail
    <2>. QED  BY <1>1, <1>2, <1>4, <2>1, <2>4, <2>5, SleepsOn
  <1>13. Wanted(c)' = {}
    BY <1>4, <1>5, <1>8 DEF Wanted, ThreadMessagesFor, n
  <1>14. NobodySleepsOverMail'
    BY <1>12, <1>13 DEF NobodySleepsOverMail
  <1>. QED  BY <1>9, <1>10, <1>11, <1>14 DEF IInv

LEMMA ResumeAskStep ==
    ASSUME IInv, NEW c \in Calls, ResumeAsk(c)
    PROVE  IInv'
  <1>. DEFINE replies == ThreadMessagesFor(calls[c].thread, calls[c].handle)
  <1>1. /\ UNCHANGED <<posts, present, delivered, term, timers, typed, inProgress>>
        /\ Woken(c) /\ calls[c].op = "ask"
    BY DEF ResumeAsk, pushes
  <1>2. TypeOK /\ calls \in [Calls -> CallState] /\ timers \subseteq SUBSET Ids
    BY DEF IInv, TypeOK
  <1>3. CASE replies # {}
    <2>1. PICK i \in replies : read' = read \cup {i} /\ given' = given \cup {i}
      BY <1>3 DEF ResumeAsk
    <2>2. i \in Ids /\ PostsKept /\ Ids' = Ids
      BY <1>1, <1>2, PostsUnchanged DEF ThreadMessagesFor, TypeOK
    <2>3. /\ calls' \in [Calls -> CallState]
          /\ \A d \in Calls : calls'[d].pc = "waiting" => StillAsleep(d)
      BY <1>3, ReturnStep DEF ResumeAsk
    <2>4. RowTypes' /\ TakenOnce'
      BY <1>1, <1>2, <2>1, <2>2 DEF RowTypes, TypeOK, TakenOnce, IInv
    <2>5. TypeOK'
      BY <1>1, <1>2, <2>3, <2>4, SplitType
    <2>6. NothingIsLost' /\ PushesAreTyped'
      <3>1. /\ present' \cap Ids \subseteq present /\ given \subseteq given'
            /\ {} \in SUBSET Ids' /\ typed \subseteq typed' /\ (inProgress' => inProgress)
            /\ read' \subseteq read \cup (given' \cup {})
            /\ timers' \subseteq timers \cup SUBSET typed'
            /\ delivered' \subseteq delivered \cup (typed' \cup {})
            /\ \A j \in {} : posts'[j].type = "heartbeat" /\ ~inProgress'
        BY <1>1, <2>1
      <3>. QED  BY <2>2, <3>1, LossStep
    <2>7. NobodySleepsOverMail'
      BY <1>1, <2>1, <2>3, QuietStep
    <2>. QED  BY <2>4, <2>5, <2>6, <2>7 DEF IInv
  <1>4. CASE replies = {}
    <2>1. UNCHANGED <<rows, inProgress, given, typed>>
      BY <1>1, <1>4 DEF ResumeAsk, rows
    <2>2. CASE Return(c)
      <3>1. /\ calls' \in [Calls -> CallState]
            /\ \A d \in Calls : calls'[d].pc = "waiting" => StillAsleep(d)
        BY <2>2, ReturnStep
      <3>2. TypeOK'
        BY <1>1, <1>2, <2>1, <3>1, MarksKept, SplitType
      <3>. QED  BY <1>1, <2>1, <3>1, <3>2, MarksKept DEF IInv
    <2>3. CASE calls' = [calls EXCEPT ![c].pc = "waiting"]
      <3>1. calls' \in [Calls -> CallState]
        BY <1>2, <2>3 DEF CallState
      <3>2. TypeOK'
        BY <1>1, <1>2, <2>1, <3>1, MarksKept, SplitType
      <3>3. Wanted(c)' = {}
        BY <1>1, <1>2, <1>4, <2>1, <2>3 DEF Wanted, ThreadMessagesFor, rows, CallState
      <3>4. \A d \in Calls : d # c =>
                /\ calls'[d] = calls[d] /\ Wanted(d)' = Wanted(d)
        BY <1>1, <1>2, <2>1, <2>3 DEF Wanted, UnreadMessages, ThreadMessagesFor, rows
      <3>5. NobodySleepsOverMail'
        BY <3>3, <3>4 DEF NobodySleepsOverMail, IInv, Waiting
      <3>. QED  BY <1>1, <2>1, <3>2, <3>5, MarksKept DEF IInv
    <2>. QED  BY <1>4, <2>2, <2>3 DEF ResumeAsk
  <1>. QED  BY <1>3, <1>4

-----------------------------------------------------------------------------
(* The theorems *)

LEMMA InitHolds == Init => IInv
  <1>. SUFFICES ASSUME Init PROVE IInv
    OBVIOUS
  <1>1. Idle \in CallState /\ Idle.pc = "free"
    BY HandlesAssumption, RoomAssumption DEF Idle, CallState
  <1>2. posts \in Seq(Header) /\ Len(posts) = 0 /\ Ids = {}
    BY DEF Init, Ids
  <1>3. TypeOK
    BY <1>1, <1>2, RoomAssumption DEF Init, TypeOK
  <1>4. TakenOnce /\ PushesAreTyped /\ NobodySleepsOverMail
    BY <1>1 DEF Init, TakenOnce, PushesAreTyped, NobodySleepsOverMail, Waiting
  <1>5. NothingIsLost
    BY LossDef DEF Init
  <1>. QED  BY <1>3, <1>4, <1>5 DEF IInv

(* A step of the system or of none of its variables. *)
LEMMA StepHolds == IInv /\ [Next]_mvars => IInv'
  <1>. SUFFICES ASSUME IInv, [Next]_mvars PROVE IInv'
    OBVIOUS
  <1>1. SendTypes \subseteq MessageTypes
    BY TypesAssumption
  <1>2. ASSUME NEW from \in Handles, NEW to \in Handles, NEW type \in SendTypes,
               Send(from, to, type)
        PROVE  IInv'
    BY <1>1, <1>2, SendStep
  <1>3. ASSUME NEW from \in Handles, NEW R \in SUBSET Handles, NEW type \in SendTypes,
               SendToGroup(from, R, type)
        PROVE  IInv'
    BY <1>1, <1>3, SendToGroupStep
  <1>4. ASSUME NEW c \in Calls, NEW h \in Handles, NEW F \in Filters,
               Check(c, h, F) \/ CheckSleeps(c, h, F)
        PROVE  IInv'
    BY <1>4, CheckStep, CheckSleepsStep
  <1>5. ASSUME NEW c \in Calls, Resume(c) \/ WakeUp(c, "timedout") \/ WakeUp(c, "aborted")
        PROVE  IInv'
    <2>1. "timedout" \in {"timedout", "aborted"} /\ "aborted" \in {"timedout", "aborted"}
      OBVIOUS
    <2>. QED  BY <1>5, <2>1, ResumeCheckStep, ResumeAskStep, WakeUpStep DEF Resume
  <1>6. ASSUME NEW h \in Handles, BecomesBusy(h) \/ HandleGoesStale(h)
        PROVE  IInv'
    <2>1. term' \in [Handles -> {"busy", "idle", "gone"}]
      BY <1>6 DEF BecomesBusy, HandleGoesStale, IInv, TypeOK
    <2>. QED  BY <1>6, <2>1, TerminalStep DEF BecomesBusy, HandleGoesStale
  <1>7. CASE UNCHANGED mvars
    <2>1. term' \in [Handles -> {"busy", "idle", "gone"}]
      BY <1>7 DEF mvars, IInv, TypeOK
    <2>. QED  BY <1>7, <2>1, TerminalStep DEF mvars, rows, pushes
  <1>. QED
    BY <1>2, <1>3, <1>4, <1>5, <1>6, <1>7, ReplyStep, AskStep, ExitStep, BecomesIdleStep,
       SubmitStep, DispatchEndsStep, ResetMessagesStep, RestartStep DEF Next

(* The invariant of which the four properties below are parts. *)
THEOREM MailInvariant == Spec => []IInv
  BY InitHolds, StepHolds, PTL DEF Spec

(* Rows, marks, calls and timers keep their types: every mark is of a row    *)
(* that exists, and every call that asks has a thread to wait in.            *)
THEOREM MailTypes == Spec => []TypeOK
  BY MailInvariant, PTL DEF IInv

(* However many calls wait on however many handles, none of them sleeps over *)
(* a message it would return (check --wait and ask).                         *)
THEOREM MailNobodySleeps == Spec => []NobodySleepsOverMail
  BY MailInvariant, PTL DEF IInv

(* What one reader was given no later check returns.                         *)
THEOREM MailTakenOnce == Spec => []TakenOnce
  BY MailInvariant, PTL DEF IInv

(* No mark is set on a message that nobody was given, whatever hangs up,     *)
(* fails to be written, is reset or restarts.                                *)
THEOREM MailNothingIsLost == Spec => []NothingIsLost
  BY MailInvariant, PTL DEF IInv
=============================================================================
