--------------------------- MODULE OutboundQueues ---------------------------
(***************************************************************************)
(* The outbound queues of the websocket channels to mobile clients, which  *)
(* share one memory budget: createWsOutboundBackpressureQueue with its     *)
(* slots, head index, holes, compaction and poll timer, and                *)
(* createMobileE2EEOutboundMemoryBudget with its claims on queued bytes    *)
(* and its prospective check of what all the sockets hold.                 *)
(*                                                                         *)
(* Every call runs to its end on the event loop; only the loop of drain is *)
(* split into its iterations, because each of them hands bytes to a socket *)
(* and the next reads what the socket still holds.  What the kernel takes  *)
(* from a socket (WireTakes) is the environment's.  Lengths are small      *)
(* numbers; what is in a frame does not matter, so a frame is its number.  *)
(***************************************************************************)
EXTENDS Integers, Sequences, FiniteSets

CONSTANTS
    Channels,           \* channels that share the memory budget
    Sizes,              \* lengths of frames that callers hand over
    SoftCap,            \* bytes in the socket above which nothing is sent
    MaxFrameBytes,      \* hard cap on one frame
    MaxQueuedBytes,     \* hard cap on the bytes of one queue
    MaxQueuedFrames,    \* hard cap on the frames of one queue
    BudgetBytes,        \* cap on queued bytes of all channels
    BudgetFrames,       \* cap on queued frames of all channels
    MaxBuffered,        \* cap on bytes in all the sockets
    CompactionHead,     \* consumed slots after which the array is compacted
    None,               \* no channel drains
    MaxFrames           \* bound: frames accepted by each channel

ASSUME SizesAssumption == Sizes \subseteq Nat /\ CompactionHead \in Nat \ {0}
ASSUME CapsAssumption ==
    /\ SoftCap \in Nat /\ MaxBuffered \in Nat /\ MaxQueuedBytes \in Nat
    /\ MaxQueuedFrames \in Nat /\ MaxFrameBytes \in Nat
ASSUME ChannelsAssumption == IsFiniteSet(Channels) /\ None \notin Channels
ASSUME BudgetAssumption == BudgetBytes \in Nat /\ BudgetFrames \in Nat

VARIABLES
    slots,          \* queue: the array, with holes where a frame left or was cancelled
    head,           \* queueHead: slots consumed
    queued,         \* bytes in the array
    queuedFrames,   \* frames in the array
    timer,          \* the poll timer is armed
    status,         \* open, closed (the socket, not yet handled) or dead (destroyed)
    draining,       \* the channel whose drain loop is running
    buffered,       \* ws.bufferedAmount
    claims,         \* what the queues hold of the budget
    last,           \* history: frames accepted by each channel
    sent,           \* history: frames handed to each socket
    cancelled       \* history: frames cancelled

queueVars == <<slots, head, queued, queuedFrames, timer, claims>>
vars == <<queueVars, status, draining, buffered, last, sent, cancelled>>

-----------------------------------------------------------------------------
(* The array *)

Hole == [id |-> 0, bytes |-> 0]

Slot == [id : Nat, bytes : Nat]

FrameSlots(c) == {k \in DOMAIN slots[c] : slots[c][k].id # 0}

Frames(c) == {slots[c][k] : k \in FrameSlots(c)}

Parked(c) == {f.id : f \in Frames(c)}

(* advanceQueueHead: k slots of s are consumed once the holes after h are.   *)
Advanced(s, h, k) ==
    /\ k \in h .. Len(s)
    /\ \A j \in h + 1 .. k : s[j] = Hole
    /\ k < Len(s) => s[k + 1] # Hole

(* Mutant: the head stays on a hole. *)
SettleStays(c, s, h) ==
    /\ slots' = [slots EXCEPT ![c] = s]
    /\ head' = [head EXCEPT ![c] = h]

(* The array s with the head moved over its holes. *)
Settle(c, s, h) ==
    \E k \in h .. Len(s) :
        /\ Advanced(s, h, k)
        /\ slots' = [slots EXCEPT ![c] = s]
        /\ head' = [head EXCEPT ![c] = k]

Claim(c, id, bytes) == [chan |-> c, id |-> id, bytes |-> bytes]

ClaimsOf(c) == {cl \in claims : cl.chan = c}

(* Mutant: the poll goes on. *)
EmptyKeepsTimer(c) ==
    /\ slots' = [slots EXCEPT ![c] = <<>>]
    /\ head' = [head EXCEPT ![c] = 0]
    /\ UNCHANGED timer

(* resetDrainedQueue *)
Empty(c) ==
    /\ slots' = [slots EXCEPT ![c] = <<>>]
    /\ head' = [head EXCEPT ![c] = 0]
    /\ timer' = [timer EXCEPT ![c] = FALSE]

(* Mutant: the claims are not given back. *)
DropBacklogHoldsClaims(c) ==
    /\ Empty(c)
    /\ queued' = [queued EXCEPT ![c] = 0]
    /\ queuedFrames' = [queuedFrames EXCEPT ![c] = 0]
    /\ UNCHANGED claims

(* dropBacklog: every retained frame gives its claim back. *)
DropBacklog(c) ==
    /\ Empty(c)
    /\ queued' = [queued EXCEPT ![c] = 0]
    /\ queuedFrames' = [queuedFrames EXCEPT ![c] = 0]
    /\ claims' = claims \ ClaimsOf(c)

(* destroy: the socket's bytes no longer count. *)
Destroy(c) ==
    /\ DropBacklog(c)
    /\ status' = [status EXCEPT ![c] = "dead"]
    /\ buffered' = [buffered EXCEPT ![c] = 0]
    /\ UNCHANGED <<last, sent, cancelled>>

(* failOverflow: the queue is done, and onOverflow destroys the channel and  *)
(* closes its socket.                                                        *)
Overflow(c) == Destroy(c) /\ draining' = None

-----------------------------------------------------------------------------
(* The budget *)

(* The sum of what f counts for each member of its domain: the number of     *)
(* units counted.                                                            *)
Units(f) == UNION {{x} \X (1 .. f[x]) : x \in DOMAIN f}

Total(f) == Cardinality(Units(f))

BytesIn(S) == Total([cl \in S |-> cl.bytes])

ClaimedBytes == BytesIn(claims)

(* Mutant: one claim more than the budget has. *)
GrantedOneMore(bytes) ==
    /\ Cardinality(claims) <= BudgetFrames
    /\ ClaimedBytes + bytes <= BudgetBytes

(* claimQueuedBytes grants a claim. *)
Granted(bytes) ==
    /\ Cardinality(claims) < BudgetFrames
    /\ ClaimedBytes + bytes <= BudgetBytes

BufferedBytes == Total(buffered)

(* Mutant: the frame itself is not counted. *)
CanSendNow(bytes) == BufferedBytes <= MaxBuffered

(* The admission is prospective: what the sockets hold with the frame. *)
CanSend(bytes) == BufferedBytes + bytes <= MaxBuffered

-----------------------------------------------------------------------------
(* enqueue *)

EventLoopFree == draining = None

(* Mutant: the soft cap counts the frame too, so a long one never leaves. *)
ClearWith(c, bytes) == buffered[c] + bytes <= SoftCap /\ CanSend(bytes)

Clear(c, bytes) == buffered[c] <= SoftCap /\ CanSend(bytes)

Put(c, id, bytes) ==
    /\ buffered' = [buffered EXCEPT ![c] = @ + bytes]
    /\ sent' = [sent EXCEPT ![c] = Append(@, id)]

(* Mutant: a frame overtakes those that are parked. *)
FastPathOvertakes(c, bytes) == Clear(c, bytes)

(* Nothing is parked and the wire is below the cap. *)
FastPath(c, bytes) == queuedFrames[c] = 0 /\ Clear(c, bytes)

SendNow(c, bytes) ==
    /\ last' = [last EXCEPT ![c] = @ + 1]
    /\ Put(c, last[c] + 1, bytes)
    /\ UNCHANGED <<queueVars, status, draining, cancelled>>

(* The claim is granted, and the caps hold with the frame in the queue. *)
Fits(c, bytes) ==
    /\ Granted(bytes)
    /\ queued[c] + bytes <= MaxQueuedBytes
    /\ queuedFrames[c] + 1 <= MaxQueuedFrames

Park(c, bytes) ==
    /\ last' = [last EXCEPT ![c] = @ + 1]
    /\ slots' = [slots EXCEPT ![c] = Append(@, [id |-> last[c] + 1, bytes |-> bytes])]
    /\ queued' = [queued EXCEPT ![c] = @ + bytes]
    /\ queuedFrames' = [queuedFrames EXCEPT ![c] = @ + 1]
    /\ claims' = claims \cup {Claim(c, last[c] + 1, bytes)}
    /\ timer' = [timer EXCEPT ![c] = TRUE]
    /\ UNCHANGED <<head, status, draining, buffered, sent, cancelled>>

(* enqueueCancelable.  Its callers ask for an open socket first.  A send or  *)
(* the sealing before it may throw.                                          *)
Enqueue(c, bytes) ==
    /\ EventLoopFree
    /\ status[c] = "open"
    /\ last[c] < MaxFrames[c]
    /\ IF bytes > MaxFrameBytes
       THEN Overflow(c)
       ELSE IF FastPath(c, bytes)
            THEN SendNow(c, bytes) \/ Overflow(c)
            ELSE IF Fits(c, bytes) THEN Park(c, bytes) ELSE Overflow(c)

(* Binary replies and control frames of legacy channels pass the queue by;   *)
(* one that finds no room is refused, or ends the channel.                   *)
SendDirect(c, bytes) ==
    /\ EventLoopFree
    /\ status[c] = "open"
    /\ IF CanSend(bytes)
       THEN /\ buffered' = [buffered EXCEPT ![c] = @ + bytes]
            /\ UNCHANGED <<queueVars, status, draining, last, sent, cancelled>>
       ELSE Overflow(c)

-----------------------------------------------------------------------------
(* cancel and drain *)

(* Mutant: the bytes of the frame at the head are released. *)
ReleaseHead(c, k) ==
    /\ queued' = [queued EXCEPT ![c] = @ - slots[c][head[c] + 1].bytes]
    /\ queuedFrames' = [queuedFrames EXCEPT ![c] = @ - 1]
    /\ claims' = claims \ {Claim(c, slots[c][k].id, slots[c][k].bytes)}

(* releaseEntry *)
Release(c, k) ==
    /\ queued' = [queued EXCEPT ![c] = @ - slots[c][k].bytes]
    /\ queuedFrames' = [queuedFrames EXCEPT ![c] = @ - 1]
    /\ claims' = claims \ {Claim(c, slots[c][k].id, slots[c][k].bytes)}

(* cancelEntry, for the frame in slot k. *)
Cancel(c, k) ==
    /\ EventLoopFree
    /\ Release(c, k)
    /\ cancelled' = [cancelled EXCEPT ![c] = @ \cup {slots[c][k].id}]
    /\ IF queuedFrames[c] = 1
       THEN Empty(c)
       ELSE Settle(c, [slots[c] EXCEPT ![k] = Hole], head[c]) /\ UNCHANGED timer
    /\ UNCHANGED <<status, draining, buffered, last, sent>>

(* The poll: a socket that went away takes its backlog along. *)
TimerFires(c) ==
    /\ EventLoopFree
    /\ timer[c]
    /\ IF status[c] = "open"
       THEN /\ timer' = [timer EXCEPT ![c] = FALSE]
            /\ draining' = c
            /\ Settle(c, slots[c], head[c])
            /\ UNCHANGED <<queued, queuedFrames, claims>>
       ELSE DropBacklog(c) /\ UNCHANGED draining
    /\ UNCHANGED <<status, buffered, last, sent, cancelled>>

HeadSlot(c) == slots[c][head[c] + 1]

Sendable(c) == queuedFrames[c] > 0 /\ Clear(c, HeadSlot(c).bytes)

(* Mutant: the head is not reset. *)
CompactKeepsHead(c, s, h) ==
    /\ slots' = [slots EXCEPT ![c] = IF h >= CompactionHead THEN SubSeq(s, h + 1, Len(s)) ELSE s]
    /\ head' = [head EXCEPT ![c] = h]

(* Mutant: one slot too many is cut off. *)
CompactTooFar(c, s, h) ==
    IF h >= CompactionHead
    THEN /\ slots' = [slots EXCEPT ![c] = SubSeq(s, h + 2, Len(s))]
         /\ head' = [head EXCEPT ![c] = 0]
    ELSE /\ slots' = [slots EXCEPT ![c] = s]
         /\ head' = [head EXCEPT ![c] = h]

(* The slots that are kept once h of s are consumed. *)
Compact(c, s, h) ==
    IF h >= CompactionHead
    THEN /\ slots' = [slots EXCEPT ![c] = SubSeq(s, h + 1, Len(s))]
         /\ head' = [head EXCEPT ![c] = 0]
    ELSE /\ slots' = [slots EXCEPT ![c] = s]
         /\ head' = [head EXCEPT ![c] = h]

(* One iteration: the head is taken out before it is sent. *)
DrainOne(c) ==
    /\ draining = c
    /\ Sendable(c)
    /\ \/ /\ Release(c, head[c] + 1)
          /\ Put(c, HeadSlot(c).id, HeadSlot(c).bytes)
          /\ LET s == [slots[c] EXCEPT ![head[c] + 1] = Hole] IN
             \E h \in head[c] + 1 .. Len(s) : Advanced(s, head[c] + 1, h) /\ Compact(c, s, h)
          /\ UNCHANGED <<timer, status, draining, last, cancelled>>
       \/ Overflow(c)

DrainEnds(c) ==
    /\ draining = c
    /\ ~Sendable(c)
    /\ IF queuedFrames[c] > 0
       THEN timer' = [timer EXCEPT ![c] = TRUE] /\ UNCHANGED <<slots, head>>
       ELSE Empty(c)
    /\ draining' = None
    /\ UNCHANGED <<queued, queuedFrames, claims, status, buffered, last, sent, cancelled>>

-----------------------------------------------------------------------------
(* Sockets *)

(* The kernel takes bytes; some of them at once, within a send. *)
WireTakes(c, left) ==
    /\ left < buffered[c]
    /\ buffered' = [buffered EXCEPT ![c] = left]
    /\ UNCHANGED <<queueVars, status, draining, last, sent, cancelled>>

SocketCloses(c) ==
    /\ EventLoopFree
    /\ status[c] = "open"
    /\ status' = [status EXCEPT ![c] = "closed"]
    /\ UNCHANGED <<queueVars, draining, buffered, last, sent, cancelled>>

(* The close event, or a protocol error. *)
Dispose(c) ==
    /\ EventLoopFree
    /\ status[c] # "dead"
    /\ Destroy(c)
    /\ UNCHANGED draining

-----------------------------------------------------------------------------

Init ==
    /\ slots = [c \in Channels |-> <<>>]
    /\ head = [c \in Channels |-> 0]
    /\ queued = [c \in Channels |-> 0]
    /\ queuedFrames = [c \in Channels |-> 0]
    /\ timer = [c \in Channels |-> FALSE]
    /\ status = [c \in Channels |-> "open"]
    /\ draining = None
    /\ buffered = [c \in Channels |-> 0]
    /\ claims = {}
    /\ last = [c \in Channels |-> 0]
    /\ sent = [c \in Channels |-> <<>>]
    /\ cancelled = [c \in Channels |-> {}]

Drain(c) == DrainOne(c) \/ DrainEnds(c)

Next ==
    \E c \in Channels :
        \/ \E bytes \in Sizes : Enqueue(c, bytes) \/ SendDirect(c, bytes)
        \/ \E k \in FrameSlots(c) : Cancel(c, k)
        \/ TimerFires(c) \/ Drain(c)
        \/ \E left \in 0 .. buffered[c] : WireTakes(c, left)
        \/ SocketCloses(c) \/ Dispose(c)

Spec == Init /\ [][Next]_vars

(* Timers fire and loops run on; a socket's close event arrives; what was    *)
(* handed to a socket is taken by the kernel, now and then of all of them at *)
(* once, and now and then a poll comes when there is room.  Traffic never    *)
(* has to stop.                                                              *)
Fairness ==
    /\ \A c \in Channels :
        /\ WF_vars(TimerFires(c)) /\ WF_vars(Drain(c))
        /\ SF_vars(Sendable(c) /\ TimerFires(c))
        /\ WF_vars(WireTakes(c, 0))
        /\ WF_vars(status[c] = "closed" /\ Dispose(c))
    /\ SF_vars(\E c \in Channels : WireTakes(c, 0) /\ BufferedBytes' = 0)

FairSpec == Spec /\ Fairness

-----------------------------------------------------------------------------
(* Properties *)

(* The arrays, counters and claims keep their types, and no head runs past   *)
(* its array (advanceQueueHead, the compaction in drain).                    *)
TypeOK ==
    /\ slots \in [Channels -> Seq(Slot)]
    /\ head \in [Channels -> Nat] /\ \A c \in Channels : head[c] <= Len(slots[c])
    /\ queued \in [Channels -> Int]
    /\ queuedFrames \in [Channels -> Nat]
    /\ timer \in [Channels -> BOOLEAN]
    /\ status \in [Channels -> {"open", "closed", "dead"}]
    /\ draining \in Channels \cup {None}
    /\ buffered \in [Channels -> Nat]
    /\ claims \subseteq [chan : Channels, id : Nat, bytes : Nat]
    /\ last \in [Channels -> Nat]
    /\ sent \in [Channels -> Seq(Nat)]
    /\ cancelled \in [Channels -> SUBSET Nat]

(* Whenever frames are counted, the slot at the head holds one: the loop of  *)
(* drain and its admission check take it unseen                              *)
(* (ws-outbound-backpressure-queue.ts:203, 205).                             *)
HeadIsFrame ==
    \A c \in Channels :
        queuedFrames[c] > 0 => head[c] < Len(slots[c]) /\ HeadSlot(c) # Hole

(* The counters agree with the array, and the budget with the queues: no     *)
(* claim outlives its frame, by cancellation, delivery, overflow or          *)
(* disposal, and none is given back twice.                                   *)
ClaimsMatch ==
    \A c \in Channels :
        /\ queuedFrames[c] = Cardinality(Frames(c))
        /\ ClaimsOf(c) = {Claim(c, f.id, f.bytes) : f \in Frames(c)}
        /\ status[c] = "dead" => Frames(c) = {}

(* queuedBytes() of a queue is what its retained frames claim of the budget, *)
(* and stays under the hard cap: whatever leaves, leaves with its own length *)
(* (releaseEntry, enqueueCancelable).                                        *)
BytesMatch ==
    \A c \in Channels : queued[c] = BytesIn(ClaimsOf(c)) /\ queued[c] <= MaxQueuedBytes

(* What the budget counts is what all the queues together count, in bytes    *)
(* and in frames, and stays within its caps: the channels cannot starve each *)
(* other by claims nobody holds any more (claimQueuedBytes, evidence).       *)
BudgetMatches ==
    /\ ClaimedBytes = Total(queued) /\ ClaimedBytes <= BudgetBytes
    /\ Cardinality(claims) = Total(queuedFrames) /\ Cardinality(claims) <= BudgetFrames

(* A queue with frames is polled, and only such a queue: no frame is parked  *)
(* for ever, and no timer outlives its queue.                                *)
ParkedIsPolled ==
    \A c \in Channels : draining # c => (timer[c] <=> queuedFrames[c] > 0)

(* While a link is up every frame it accepted is sent, parked or cancelled.  *)
NothingSkipped ==
    \A c \in Channels : status[c] = "open" =>
        1 .. last[c] = {sent[c][n] : n \in DOMAIN sent[c]} \cup Parked(c) \cup cancelled[c]

(* All the sockets together never hold more than the process may buffer.     *)
BufferBounded == BufferedBytes <= MaxBuffered

(* A parked frame leaves in the end: it is sent, or cancelled, or its link   *)
(* ends.                                                                     *)
FramesLeave ==
    \A c \in Channels : \A i \in 1 .. MaxFrames[c] : i \in Parked(c) ~> i \notin Parked(c)

-----------------------------------------------------------------------------
(* The promise: each channel is an ordered link. *)

up == [c \in Channels |-> status[c] = "open"]
pending == [c \in Channels |-> Parked(c)]

Link == INSTANCE OrderedLink WITH Links <- Channels

(* Overtaking, loss and duplication would each be a step that no link takes. *)
KeepsOrder == Link!LinkSpec
=============================================================================
