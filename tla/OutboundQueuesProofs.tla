------------------------ MODULE OutboundQueuesProofs ------------------------
(***************************************************************************)
(* Theorems about module OutboundQueues, for any channels, lengths, caps   *)
(* and compaction threshold, and any number of frames.                     *)
(*                                                                         *)
(* The argument is about one array at a time.  Ordered says what its slots *)
(* look like: consumed slots are holes, the slot at the head is not, and   *)
(* frames lie in the order of their numbers.  Four lemmas say what adding, *)
(* taking out, cutting off and emptying do to such an array and to the set *)
(* of its frames; the counters, the claims and the promise of an ordered   *)
(* link are then about that set.                                           *)
(***************************************************************************)
EXTENDS OutboundQueues, SequenceTheorems, FiniteSetTheorems, TLAPS

Ordered(s, h, n) ==
    /\ s \in Seq(Slot) /\ h \in 0 .. Len(s)
    /\ \A k \in 1 .. h : s[k] = Hole
    /\ h < Len(s) => s[h + 1].id # 0
    /\ \A k \in 1 .. Len(s) : s[k].id = 0 => s[k] = Hole
    /\ \A k, l \in 1 .. Len(s) : k < l /\ s[k].id # 0 /\ s[l].id # 0 => s[k].id < s[l].id
    /\ \A k \in 1 .. Len(s) : s[k].id <= n

FramesIn(s) == {s[k] : k \in {j \in DOMAIN s : s[j].id # 0}}

LEMMA HoleIsSlot == Hole \in Slot /\ Hole.id = 0
  BY DEF Hole, Slot

LEMMA SlotTypes ==
    ASSUME NEW s \in Seq(Slot)
    PROVE  /\ DOMAIN s = 1 .. Len(s) /\ Len(s) \in Nat
           /\ \A k \in 1 .. Len(s) : s[k] \in Slot /\ s[k].id \in Nat /\ s[k].bytes \in Nat
  <1>1. DOMAIN s = 1 .. Len(s) /\ Len(s) \in Nat /\ \A k \in 1 .. Len(s) : s[k] \in Slot
    BY LenProperties
  <1>. QED  BY <1>1 DEF Slot

LEMMA FrameThere ==
    ASSUME NEW s \in Seq(Slot), NEW k \in 1 .. Len(s), s[k].id # 0
    PROVE  s[k] \in FramesIn(s)
  BY SlotTypes DEF FramesIn

LEMMA FrameWhere ==
    ASSUME NEW s \in Seq(Slot), NEW f \in FramesIn(s)
    PROVE  \E k \in 1 .. Len(s) : f = s[k] /\ s[k].id # 0
  BY SlotTypes DEF FramesIn

(* A number belongs to one frame. *)
LEMMA FramesDiffer ==
    ASSUME NEW s, NEW h, NEW n, Ordered(s, h, n), NEW f \in FramesIn(s), NEW g \in FramesIn(s),
           f.id = g.id
    PROVE  f = g
  <1>1. s \in Seq(Slot)
    BY DEF Ordered
  <1>2. PICK k \in 1 .. Len(s) : f = s[k] /\ s[k].id # 0
    BY <1>1, FrameWhere
  <1>3. PICK l \in 1 .. Len(s) : g = s[l] /\ s[l].id # 0
    BY <1>1, FrameWhere
  <1>4. s[k].id \in Nat /\ s[l].id \in Nat /\ Len(s) \in Nat
    BY <1>1, SlotTypes
  <1>. QED  BY <1>2, <1>3, <1>4 DEF Ordered

(* The frame at the head is the oldest. *)
LEMMA HeadIsOldest ==
    ASSUME NEW s, NEW h, NEW n, Ordered(s, h, n), FramesIn(s) # {}
    PROVE  /\ h + 1 \in 1 .. Len(s) /\ s[h + 1].id # 0 /\ s[h + 1] \in FramesIn(s)
           /\ \A f \in FramesIn(s) : s[h + 1].id <= f.id
  <1>1. s \in Seq(Slot) /\ Len(s) \in Nat /\ h \in Nat
    BY SlotTypes DEF Ordered
  <1>2. ASSUME NEW k \in 1 .. Len(s), s[k].id # 0
        PROVE  h < k
    BY <1>1, <1>2, HoleIsSlot DEF Ordered
  <1>3. h < Len(s)
    <2>1. PICK f \in FramesIn(s) : TRUE
      OBVIOUS
    <2>2. PICK k \in 1 .. Len(s) : s[k].id # 0
      BY <1>1, FrameWhere
    <2>. QED  BY <1>1, <1>2, <2>2
  <1>4. h + 1 \in 1 .. Len(s) /\ s[h + 1].id # 0
    BY <1>1, <1>3 DEF Ordered
  <1>5. ASSUME NEW k \in 1 .. Len(s), s[k].id # 0
        PROVE  s[h + 1].id <= s[k].id
    <2>1. s[k].id \in Nat /\ s[h + 1].id \in Nat
      BY <1>1, <1>4, SlotTypes
    <2>2. CASE k = h + 1
      BY <2>1, <2>2
    <2>3. CASE h + 1 < k
      BY <1>4, <1>5, <2>1, <2>3 DEF Ordered
    <2>. QED  BY <1>1, <1>2, <1>5, <2>2, <2>3
  <1>6. ASSUME NEW f \in FramesIn(s)
        PROVE  s[h + 1].id <= f.id
    <2>1. PICK k \in 1 .. Len(s) : f = s[k] /\ s[k].id # 0
      BY <1>1, FrameWhere
    <2>. QED  BY <1>5, <2>1
  <1>7. s[h + 1] \in FramesIn(s)
    BY <1>1, <1>4, FrameThere
  <1>. QED  BY <1>4, <1>6, <1>7

LEMMA OrderedLater ==
    ASSUME NEW s, NEW h, NEW n \in Nat, Ordered(s, h, n)
    PROVE  Ordered(s, h, n + 1)
  <1>1. s \in Seq(Slot)
    BY DEF Ordered
  <1>2. \A k \in 1 .. Len(s) : s[k].id \in Nat /\ s[k].id <= n
    BY <1>1, SlotTypes DEF Ordered
  <1>3. \A k \in 1 .. Len(s) : s[k].id <= n + 1
    BY <1>2
  <1>. QED  BY <1>3 DEF Ordered

LEMMA EmptyArray ==
    ASSUME NEW n
    PROVE  Ordered(<<>>, 0, n) /\ FramesIn(<<>>) = {} /\ IsFiniteSet(FramesIn(<<>>))
  <1>1. <<>> \in Seq(Slot) /\ Len(<<>>) = 0
    BY EmptySeq
  <1>2. FramesIn(<<>>) = {}
    <2>1. ASSUME NEW f \in FramesIn(<<>>)
          PROVE  FALSE
      <3>1. \E k \in 1 .. Len(<<>>) : TRUE
        BY <1>1, FrameWhere
      <3>. QED  BY <1>1, <3>1
    <2>. QED  BY <2>1
  <1>. QED  BY <1>1, <1>2, FS_EmptySet DEF Ordered

LEMMA AppendFrame ==
    ASSUME NEW s, NEW h, NEW n \in Nat, Ordered(s, h, n), NEW e \in Slot, e.id = n + 1,
           NEW t, t = Append(s, e)
    PROVE  /\ Ordered(t, h, n + 1)
           /\ FramesIn(t) = FramesIn(s) \cup {e}
           /\ e \notin FramesIn(s)
  <1>1. s \in Seq(Slot) /\ Len(s) \in Nat /\ h \in 0 .. Len(s)
    BY SlotTypes DEF Ordered
  <1>2. /\ t \in Seq(Slot) /\ Len(t) = Len(s) + 1
        /\ \A k \in 1 .. Len(s) : t[k] = s[k]
        /\ t[Len(s) + 1] = e
    BY <1>1, AppendProperties
  <1>3. \A k \in 1 .. Len(s) : s[k].id \in Nat /\ s[k].id <= n
    BY <1>1, SlotTypes DEF Ordered
  <1>4. \A k \in 1 .. Len(t) : k \in 1 .. Len(s) \/ k = Len(s) + 1
    BY <1>1, <1>2
  <1>5. Ordered(t, h, n + 1)
    <2>1. \A k \in 1 .. h : t[k] = Hole
      BY <1>1, <1>2 DEF Ordered
    <2>2. h < Len(t) => t[h + 1].id # 0
      BY <1>1, <1>2 DEF Ordered
    <2>3. \A k \in 1 .. Len(t) : t[k].id = 0 => t[k] = Hole
      BY <1>2, <1>4 DEF Ordered
    <2>4. ASSUME NEW k \in 1 .. Len(t), NEW l \in 1 .. Len(t),
                 k < l, t[k].id # 0, t[l].id # 0
          PROVE  t[k].id < t[l].id
      <3>1. k \in 1 .. Len(s)
        BY <1>1, <1>2, <2>4
      <3>2. CASE l \in 1 .. Len(s)
        BY <1>2, <2>4, <3>1, <3>2 DEF Ordered
      <3>3. CASE l = Len(s) + 1
        BY <1>2, <1>3, <3>1, <3>3
      <3>. QED  BY <1>4, <3>2, <3>3
    <2>5. \A k \in 1 .. Len(t) : t[k].id <= n + 1
      BY <1>2, <1>3, <1>4
    <2>6. h \in 0 .. Len(t)
      BY <1>1, <1>2
    <2>. QED  BY <1>2, <2>1, <2>2, <2>3, <2>4, <2>5, <2>6 DEF Ordered
  <1>6. e \notin FramesIn(s)
    BY <1>1, <1>3, FrameWhere
  <1>7. ASSUME NEW f
        PROVE  f \in FramesIn(t) <=> f \in FramesIn(s) \/ f = e
    <2>1. ASSUME f \in FramesIn(t)
          PROVE  f \in FramesIn(s) \/ f = e
      <3>1. PICK k \in 1 .. Len(t) : f = t[k] /\ t[k].id # 0
        BY <1>2, <2>1, FrameWhere
      <3>2. CASE k \in 1 .. Len(s)
        BY <1>1, <1>2, <3>1, <3>2, FrameThere
      <3>. QED  BY <1>2, <1>4, <3>1, <3>2
    <2>2. ASSUME f \in FramesIn(s)
          PROVE  f \in FramesIn(t)
      <3>1. PICK k \in 1 .. Len(s) : f = s[k] /\ s[k].id # 0
        BY <1>1, <2>2, FrameWhere
      <3>2. k \in 1 .. Len(t) /\ t[k] = f
        BY <1>1, <1>2, <3>1
      <3>. QED  BY <1>2, <3>1, <3>2, FrameThere
    <2>3. e \in FramesIn(t)
      <3>1. Len(s) + 1 \in 1 .. Len(t) /\ t[Len(s) + 1].id # 0
        BY <1>1, <1>2
      <3>. QED  BY <1>2, <3>1, FrameThere
    <2>. QED  BY <2>1, <2>2, <2>3
  <1>. QED  BY <1>5, <1>6, <1>7

(* A frame taken out, and the head moved over the holes from h0 on. *)
LEMMA TakeOut ==
    ASSUME NEW s, NEW h, NEW n \in Nat, Ordered(s, h, n), NEW k \in 1 .. Len(s), s[k].id # 0,
           NEW t, t = [s EXCEPT ![k] = Hole],
           NEW h0 \in 0 .. Len(s), \A j \in 1 .. h0 : j <= h \/ j = k,
           NEW m, Advanced(t, h0, m)
    PROVE  /\ Ordered(t, m, n)
           /\ FramesIn(t) = FramesIn(s) \ {s[k]}
           /\ s[k] \in FramesIn(s)
  <1>1. s \in Seq(Slot) /\ Len(s) \in Nat /\ h \in 0 .. Len(s)
    BY SlotTypes DEF Ordered
  <1>2. /\ t \in Seq(Slot) /\ Len(t) = Len(s)
        /\ \A j \in 1 .. Len(s) : t[j] = IF j = k THEN Hole ELSE s[j]
    BY <1>1, HoleIsSlot, ExceptSeq
  <1>3. /\ m \in h0 .. Len(t) /\ \A j \in h0 + 1 .. m : t[j] = Hole
        /\ m < Len(t) => t[m + 1] # Hole
    BY DEF Advanced
  <1>4. Ordered(t, m, n)
    <2>1. \A j \in 1 .. m : t[j] = Hole
      <3>1. ASSUME NEW j \in 1 .. h0
            PROVE  t[j] = Hole
        <4>0. (j <= h \/ j = k) /\ h0 \in Nat /\ h \in Nat /\ j \in Nat /\ j <= h0 /\ 1 <= j
          BY <1>1
        <4>1. j \in 1 .. Len(s) /\ (j # k => j \in 1 .. h)
          BY <1>1, <4>0
        <4>2. j # k => s[j] = Hole
          BY <4>1 DEF Ordered
        <4>. QED  BY <1>2, <4>1, <4>2
      <3>. QED  BY <1>1, <1>3, <3>1
    <2>2. \A j \in 1 .. Len(t) : t[j].id = 0 => t[j] = Hole
      BY <1>2 DEF Ordered
    <2>3. m < Len(t) => t[m + 1].id # 0
      BY <1>1, <1>2, <1>3, <2>2
    <2>4. \A j, l \in 1 .. Len(t) : j < l /\ t[j].id # 0 /\ t[l].id # 0 => t[j].id < t[l].id
      BY <1>2, HoleIsSlot DEF Ordered
    <2>5. \A j \in 1 .. Len(t) : t[j].id <= n
      <3>1. s[k].id \in Nat /\ s[k].id <= n
        BY <1>1, SlotTypes DEF Ordered
      <3>. QED  BY <1>2, <3>1, HoleIsSlot DEF Ordered
    <2>6. m \in 0 .. Len(t)
      BY <1>1, <1>2, <1>3
    <2>. QED  BY <1>2, <2>1, <2>2, <2>3, <2>4, <2>5, <2>6 DEF Ordered
  <1>5. s[k] \in FramesIn(s)
    BY <1>1, FrameThere
  <1>6. \A j \in 1 .. Len(s) : s[j].id # 0 /\ j # k => s[j] # s[k]
    <2>1. \A j \in 1 .. Len(s) : s[j].id \in Nat
      BY <1>1, SlotTypes
    <2>. QED  BY <1>1, <2>1 DEF Ordered
  <1>7. ASSUME NEW f
        PROVE  f \in FramesIn(t) <=> f \in FramesIn(s) /\ f # s[k]
    <2>1. ASSUME f \in FramesIn(t)
          PROVE  f \in FramesIn(s) /\ f # s[k]
      <3>1. PICK j \in 1 .. Len(t) : f = t[j] /\ t[j].id # 0
        BY <1>2, <2>1, FrameWhere
      <3>2. j \in 1 .. Len(s) /\ j # k /\ t[j] = s[j]
        BY <1>2, <3>1, HoleIsSlot
      <3>. QED  BY <1>1, <1>6, <3>1, <3>2, FrameThere
    <2>2. ASSUME f \in FramesIn(s), f # s[k]
          PROVE  f \in FramesIn(t)
      <3>1. PICK j \in 1 .. Len(s) : f = s[j] /\ s[j].id # 0
        BY <1>1, <2>2, FrameWhere
      <3>2. j \in 1 .. Len(t) /\ t[j] = f
        BY <1>2, <2>2, <3>1
      <3>. QED  BY <1>2, <3>1, <3>2, FrameThere
    <2>. QED  BY <2>1, <2>2
  <1>. QED  BY <1>4, <1>5, <1>7

(* What is cut off has no frames. *)
LEMMA CutOff ==
    ASSUME NEW s, NEW h, NEW n, Ordered(s, h, n), NEW t, t = SubSeq(s, h + 1, Len(s))
    PROVE  Ordered(t, 0, n) /\ FramesIn(t) = FramesIn(s)
  <1>1. /\ s \in Seq(Slot) /\ Len(s) \in Nat /\ h \in 0 .. Len(s)
        /\ \A k \in 1 .. Len(s) : s[k] \in Slot
    BY SlotTypes DEF Ordered
  <1>2. /\ t \in Seq(Slot) /\ Len(t) = Len(s) - h
        /\ \A k \in 1 .. Len(t) : t[k] = s[h + k]
    <2>1. h + 1 \in Int /\ Len(s) \in Int /\ \A k \in h + 1 .. Len(s) : s[k] \in Slot
      BY <1>1
    <2>2. /\ t \in Seq(Slot)
          /\ Len(t) = IF h + 1 <= Len(s) THEN Len(s) - (h + 1) + 1 ELSE 0
          /\ \A k \in 1 .. Len(s) - (h + 1) + 1 : t[k] = s[(h + 1) + k - 1]
      BY <2>1, SubSeqProperties
    <2>. QED  BY <1>1, <2>2
  <1>3. \A k \in 1 .. Len(t) : h + k \in 1 .. Len(s)
    BY <1>1, <1>2
  <1>4. Ordered(t, 0, n)
    <2>1. 0 < Len(t) => t[0 + 1].id # 0
      BY <1>1, <1>2 DEF Ordered
    <2>2. \A k \in 1 .. Len(t) : (t[k].id = 0 => t[k] = Hole) /\ t[k].id <= n
      BY <1>2, <1>3 DEF Ordered
    <2>3. ASSUME NEW k \in 1 .. Len(t), NEW l \in 1 .. Len(t),
                 k < l, t[k].id # 0, t[l].id # 0
          PROVE  t[k].id < t[l].id
      <3>1. /\ h + k \in 1 .. Len(s) /\ h + l \in 1 .. Len(s) /\ h + k < h + l
            /\ t[k] = s[h + k] /\ t[l] = s[h + l]
        BY <1>1, <1>2, <1>3, <2>3
      <3>. QED  BY <2>3, <3>1 DEF Ordered
    <2>4. 0 \in 0 .. Len(t)
      BY <1>1, <1>2
    <2>. QED  BY <1>2, <2>1, <2>2, <2>3, <2>4 DEF Ordered
  <1>5. ASSUME NEW f
        PROVE  f \in FramesIn(t) <=> f \in FramesIn(s)
    <2>1. ASSUME f \in FramesIn(t)
          PROVE  f \in FramesIn(s)
      <3>1. PICK k \in 1 .. Len(t) : f = t[k] /\ t[k].id # 0
        BY <1>2, <2>1, FrameWhere
      <3>2. h + k \in 1 .. Len(s) /\ s[h + k] = f
        BY <1>2, <1>3, <3>1
      <3>. QED  BY <1>1, <3>1, <3>2, FrameThere
    <2>2. ASSUME NEW k \in 1 .. Len(s), s[k].id # 0
          PROVE  s[k] \in FramesIn(t)
      <3>1. h < k
        BY <1>1, <2>2, HoleIsSlot DEF Ordered
      <3>2. k - h \in 1 .. Len(t) /\ t[k - h] = s[k]
        BY <1>1, <1>2, <3>1
      <3>. QED  BY <1>2, <2>2, <3>2, FrameThere
    <2>3. ASSUME f \in FramesIn(s)
          PROVE  f \in FramesIn(t)
      <3>1. PICK k \in 1 .. Len(s) : f = s[k] /\ s[k].id # 0
        BY <1>1, <2>3, FrameWhere
      <3>. QED  BY <2>2, <3>1
    <2>. QED  BY <2>1, <2>3
  <1>. QED  BY <1>4, <1>5

-----------------------------------------------------------------------------
(* The inductive invariant *)

ClaimsFor(c, F) == {Claim(c, f.id, f.bytes) : f \in F}

ArrayInv(c) == Ordered(slots[c], head[c], last[c])

CountInv(c) ==
    /\ IsFiniteSet(Frames(c))
    /\ queuedFrames[c] = Cardinality(Frames(c))
    /\ ClaimsOf(c) = ClaimsFor(c, Frames(c))

PollInv(c) ==
    /\ draining = c => status[c] = "open"
    /\ draining # c => (timer[c] <=> queuedFrames[c] > 0)
    /\ status[c] = "dead" => Frames(c) = {}

SentBy(c) == {sent[c][n] : n \in DOMAIN sent[c]}

ReachInv(c) == status[c] = "open" => 1 .. last[c] = SentBy(c) \cup Parked(c) \cup cancelled[c]

ChannelInv(c) == ArrayInv(c) /\ CountInv(c) /\ PollInv(c) /\ ReachInv(c)

IInv == TypeOK /\ \A c \in Channels : ChannelInv(c)

(* The queue of d is not touched by a step. *)
QueueKept(d) ==
    /\ slots'[d] = slots[d] /\ head'[d] = head[d] /\ queuedFrames'[d] = queuedFrames[d]
    /\ timer'[d] = timer[d] /\ ClaimsOf(d)' = ClaimsOf(d)

(* Nor is its socket. *)
LinkKept(d) ==
    /\ status'[d] = status[d] /\ last'[d] = last[d] /\ sent'[d] = sent[d]
    /\ cancelled'[d] = cancelled[d]

LEMMA FramesAre == ASSUME NEW c PROVE Frames(c) = FramesIn(slots[c])
  BY DEF Frames, FrameSlots, FramesIn

LEMMA FramesAreNext == ASSUME NEW c PROVE Frames(c)' = FramesIn(slots'[c])
  BY DEF Frames, FrameSlots, FramesIn

LEMMA KeptFrames ==
    ASSUME NEW c, slots'[c] = slots[c]
    PROVE  Frames(c)' = Frames(c) /\ Parked(c)' = Parked(c)
  <1>1. Frames(c)' = Frames(c)
    BY FramesAre, FramesAreNext
  <1>. QED  BY <1>1 DEF Parked

(* A channel that a step leaves alone keeps its invariant. *)
LEMMA KeptChannel ==
    ASSUME NEW d \in Channels, ChannelInv(d), QueueKept(d), LinkKept(d), draining # d, draining' # d
    PROVE  ChannelInv(d)'
  <1>1. Frames(d)' = Frames(d) /\ Parked(d)' = Parked(d)
    BY KeptFrames DEF QueueKept
  <1>2. ArrayInv(d)'
    BY DEF ChannelInv, ArrayInv, QueueKept, LinkKept
  <1>3. CountInv(d)'
    BY <1>1 DEF ChannelInv, CountInv, QueueKept
  <1>4. PollInv(d)'
    BY <1>1 DEF ChannelInv, PollInv, QueueKept, LinkKept
  <1>5. ReachInv(d)'
    <2>1. SentBy(d)' = SentBy(d)
      BY DEF SentBy, LinkKept
    <2>. QED  BY <1>1, <2>1 DEF ChannelInv, ReachInv, LinkKept
  <1>. QED  BY <1>2, <1>3, <1>4, <1>5 DEF ChannelInv

(* A queue that a step empties. *)
LEMMA EmptiedQueue ==
    ASSUME NEW c \in Channels, slots'[c] = <<>>, head'[c] = 0, queuedFrames'[c] = 0, ClaimsOf(c)' = {}
    PROVE  ArrayInv(c)' /\ CountInv(c)' /\ Frames(c)' = {} /\ Parked(c)' = {}
  <1>1. Frames(c)' = {} /\ IsFiniteSet(Frames(c)') /\ Cardinality(Frames(c)') = 0
    BY EmptyArray, FramesAreNext, FS_EmptySet
  <1>2. ArrayInv(c)'
    BY EmptyArray DEF ArrayInv
  <1>3. Parked(c)' = {} /\ ClaimsFor(c, Frames(c))' = {}
    BY <1>1 DEF Parked, ClaimsFor
  <1>. QED  BY <1>1, <1>2, <1>3 DEF CountInv

-----------------------------------------------------------------------------
(* Steps that end a channel *)

LEMMA EmptyKeeps ==
    ASSUME TypeOK, NEW c \in Channels, Empty(c)
    PROVE  /\ slots' \in [Channels -> Seq(Slot)] /\ head' \in [Channels -> Nat]
           /\ timer' \in [Channels -> BOOLEAN]
           /\ slots'[c] = <<>> /\ head'[c] = 0 /\ timer'[c] = FALSE /\ Len(slots'[c]) = 0
           /\ \A d \in Channels \ {c} : slots'[d] = slots[d] /\ head'[d] = head[d] /\ timer'[d] = timer[d]
           /\ \A d \in Channels : head'[d] <= Len(slots'[d])
  <1>1. <<>> \in Seq(Slot) /\ Len(<<>>) = 0
    BY EmptySeq
  <1>. QED  BY <1>1 DEF TypeOK, Empty

LEMMA DropBacklogKeeps ==
    ASSUME TypeOK, NEW c \in Channels, DropBacklog(c)
    PROVE  /\ slots' \in [Channels -> Seq(Slot)] /\ head' \in [Channels -> Nat]
           /\ timer' \in [Channels -> BOOLEAN]
           /\ \A d \in Channels : head'[d] <= Len(slots'[d])
           /\ queued' \in [Channels -> Int] /\ queuedFrames' \in [Channels -> Nat]
           /\ claims' \subseteq [chan : Channels, id : Nat, bytes : Nat]
           /\ ArrayInv(c)' /\ CountInv(c)' /\ Frames(c)' = {} /\ Parked(c)' = {}
           /\ timer'[c] = FALSE /\ queuedFrames'[c] = 0
           /\ \A d \in Channels \ {c} : QueueKept(d)
  <1>1. /\ slots' \in [Channels -> Seq(Slot)] /\ head' \in [Channels -> Nat]
        /\ timer' \in [Channels -> BOOLEAN]
        /\ slots'[c] = <<>> /\ head'[c] = 0 /\ timer'[c] = FALSE
        /\ \A d \in Channels \ {c} : slots'[d] = slots[d] /\ head'[d] = head[d] /\ timer'[d] = timer[d]
        /\ \A d \in Channels : head'[d] <= Len(slots'[d])
    BY EmptyKeeps DEF DropBacklog
  <1>2. /\ queued' \in [Channels -> Int] /\ queuedFrames' \in [Channels -> Nat]
        /\ claims' \subseteq [chan : Channels, id : Nat, bytes : Nat]
        /\ queuedFrames'[c] = 0
        /\ \A d \in Channels \ {c} : queuedFrames'[d] = queuedFrames[d]
    BY DEF DropBacklog, TypeOK
  <1>3. ClaimsOf(c)' = {} /\ \A d \in Channels \ {c} : ClaimsOf(d)' = ClaimsOf(d)
    BY DEF DropBacklog, ClaimsOf
  <1>4. ArrayInv(c)' /\ CountInv(c)' /\ Frames(c)' = {} /\ Parked(c)' = {}
    BY <1>1, <1>2, <1>3, EmptiedQueue
  <1>. QED  BY <1>1, <1>2, <1>3, <1>4 DEF QueueKept

LEMMA DestroyKeeps ==
    ASSUME IInv, NEW c \in Channels, Destroy(c), draining \in {None, c}, draining' = None
    PROVE  /\ IInv' /\ Parked(c)' = {} /\ \A d \in Channels \ {c} : Parked(d)' = Parked(d)
  <1>. USE ChannelsAssumption
  <1>0. TypeOK /\ DropBacklog(c)
    BY DEF IInv, Destroy
  <1>1. TypeOK'
    BY <1>0, DropBacklogKeeps DEF Destroy, TypeOK
  <1>2. ChannelInv(c)'
    <2>1. ArrayInv(c)' /\ CountInv(c)' /\ Frames(c)' = {} /\ timer'[c] = FALSE /\ queuedFrames'[c] = 0
      BY <1>0, DropBacklogKeeps
    <2>2. status'[c] = "dead"
      BY <1>0 DEF Destroy, TypeOK
    <2>. QED  BY <2>1, <2>2 DEF ChannelInv, PollInv, ReachInv
  <1>3. ASSUME NEW d \in Channels \ {c}
        PROVE  ChannelInv(d)' /\ Parked(d)' = Parked(d)
    <2>1. QueueKept(d)
      BY <1>0, DropBacklogKeeps
    <2>2. LinkKept(d)
      BY <1>0 DEF Destroy, TypeOK, LinkKept
    <2>. QED  BY <2>1, <2>2, KeptChannel, KeptFrames DEF IInv, QueueKept
  <1>4. Parked(c)' = {}
    BY <1>0, DropBacklogKeeps
  <1>. QED  BY <1>1, <1>2, <1>3, <1>4 DEF IInv

LEMMA OverflowKeeps ==
    ASSUME IInv, NEW c \in Channels, Overflow(c), draining \in {None, c}
    PROVE  /\ IInv' /\ Parked(c)' = {} /\ \A d \in Channels \ {c} : Parked(d)' = Parked(d)
  BY DestroyKeeps DEF Overflow

LEMMA DisposeKeeps ==
    ASSUME IInv, NEW c \in Channels, Dispose(c)
    PROVE  /\ IInv' /\ Parked(c)' = {} /\ \A d \in Channels \ {c} : Parked(d)' = Parked(d)
  BY DestroyKeeps DEF Dispose, EventLoopFree

-----------------------------------------------------------------------------
(* Frames that are accepted *)

LEMMA SentMore ==
    ASSUME TypeOK, NEW c \in Channels, NEW id \in Nat, sent' = [sent EXCEPT ![c] = Append(@, id)]
    PROVE  /\ sent' \in [Channels -> Seq(Nat)]
           /\ sent'[c] = Append(sent[c], id) /\ \A d \in Channels \ {c} : sent'[d] = sent[d]
           /\ SentBy(c)' = SentBy(c) \cup {id}
  <1>1. sent \in [Channels -> Seq(Nat)] /\ sent[c] \in Seq(Nat)
    BY DEF TypeOK
  <1>2. /\ Append(sent[c], id) \in Seq(Nat) /\ Len(Append(sent[c], id)) = Len(sent[c]) + 1
        /\ \A n \in 1 .. Len(sent[c]) : Append(sent[c], id)[n] = sent[c][n]
        /\ Append(sent[c], id)[Len(sent[c]) + 1] = id
    BY <1>1, AppendProperties
  <1>3. sent' \in [Channels -> Seq(Nat)] /\ sent'[c] = Append(sent[c], id)
        /\ \A d \in Channels \ {c} : sent'[d] = sent[d]
    BY <1>1, <1>2
  <1>4. /\ Len(sent[c]) \in Nat /\ DOMAIN sent[c] = 1 .. Len(sent[c])
        /\ DOMAIN sent'[c] = 1 .. Len(sent[c]) + 1
    BY <1>1, <1>2, <1>3, LenProperties
  <1>5. SentBy(c)' = SentBy(c) \cup {id}
    BY <1>2, <1>3, <1>4 DEF SentBy
  <1>. QED  BY <1>3, <1>5

LEMMA SendNowKeeps ==
    ASSUME IInv, NEW c \in Channels, NEW bytes \in Nat, EventLoopFree, status[c] = "open",
           SendNow(c, bytes)
    PROVE  /\ IInv' /\ \A d \in Channels : Parked(d)' = Parked(d)
  <1>. USE ChannelsAssumption
  <1>1. TypeOK /\ last[c] \in Nat /\ draining = None /\ draining' = None
    BY DEF IInv, TypeOK, SendNow, EventLoopFree
  <1>2. /\ sent' \in [Channels -> Seq(Nat)] /\ \A d \in Channels \ {c} : sent'[d] = sent[d]
        /\ SentBy(c)' = SentBy(c) \cup {last[c] + 1}
    <2>1. last[c] + 1 \in Nat /\ sent' = [sent EXCEPT ![c] = Append(@, last[c] + 1)]
      BY <1>1 DEF SendNow, Put
    <2>. QED  BY <1>1, <2>1, SentMore
  <1>3. last' \in [Channels -> Nat] /\ last'[c] = last[c] + 1 /\ \A d \in Channels \ {c} : last'[d] = last[d]
    BY <1>1 DEF SendNow, TypeOK
  <1>4. TypeOK'
    <2>1. buffered' \in [Channels -> Nat]
      BY <1>1 DEF TypeOK, SendNow, Put
    <2>2. UNCHANGED <<slots, head, queued, queuedFrames, timer, claims, status, draining, cancelled>>
      BY DEF SendNow, queueVars
    <2>. QED  BY <1>1, <1>2, <1>3, <2>1, <2>2 DEF TypeOK
  <1>5. \A d \in Channels : QueueKept(d) /\ Parked(d)' = Parked(d) /\ Frames(d)' = Frames(d)
    BY KeptFrames DEF SendNow, queueVars, QueueKept, ClaimsOf
  <1>6. ChannelInv(c)'
    <2>1. ChannelInv(c)
      BY DEF IInv
    <2>2. ArrayInv(c)'
      BY <1>1, <1>3, <1>5, <2>1, OrderedLater DEF ChannelInv, ArrayInv, QueueKept
    <2>3. CountInv(c)' /\ PollInv(c)'
      BY <1>1, <1>5, <2>1 DEF ChannelInv, CountInv, PollInv, SendNow, queueVars, QueueKept
    <2>4. ReachInv(c)'
      <3>1. 1 .. last'[c] = (1 .. last[c]) \cup {last[c] + 1}
        BY <1>1, <1>3
      <3>2. 1 .. last[c] = SentBy(c) \cup Parked(c) \cup cancelled[c] /\ cancelled' = cancelled
        BY <2>1 DEF ChannelInv, ReachInv, SendNow
      <3>. QED  BY <1>2, <1>5, <3>1, <3>2, Zenon DEF ReachInv
    <2>. QED  BY <2>2, <2>3, <2>4 DEF ChannelInv
  <1>7. ASSUME NEW d \in Channels \ {c}
        PROVE  ChannelInv(d)'
    BY <1>1, <1>2, <1>3, <1>5, KeptChannel DEF IInv, LinkKept, SendNow
  <1>. QED  BY <1>4, <1>5, <1>6, <1>7 DEF IInv

LEMMA ClaimsForMore ==
    ASSUME NEW c, NEW F, NEW e
    PROVE  ClaimsFor(c, F \cup {e}) = ClaimsFor(c, F) \cup {Claim(c, e.id, e.bytes)}
  BY DEF ClaimsFor

LEMMA ClaimOfChannel == ASSUME NEW c, NEW id, NEW bytes PROVE Claim(c, id, bytes).chan = c
  BY DEF Claim

LEMMA ClaimType ==
    ASSUME NEW c \in Channels, NEW id \in Nat, NEW bytes \in Nat
    PROVE  Claim(c, id, bytes) \in [chan : Channels, id : Nat, bytes : Nat]
  BY DEF Claim

LEMMA ParkKeeps ==
    ASSUME IInv, NEW c \in Channels, NEW bytes \in Nat, EventLoopFree, status[c] = "open",
           Park(c, bytes)
    PROVE  /\ IInv' /\ Parked(c)' = Parked(c) \cup {last[c] + 1}
           /\ \A d \in Channels \ {c} : Parked(d)' = Parked(d)
  <1>. USE ChannelsAssumption
  <1>. DEFINE e == [id |-> last[c] + 1, bytes |-> bytes]
  <1>1. TypeOK /\ last[c] \in Nat /\ draining = None /\ draining' = None /\ ChannelInv(c)
    BY DEF IInv, TypeOK, Park, EventLoopFree
  <1>2. e \in Slot /\ e.id = last[c] + 1 /\ e.bytes = bytes
    BY <1>1 DEF Slot
  <1>. HIDE DEF e
  <1>3. slots' = [slots EXCEPT ![c] = Append(slots[c], e)]
    BY DEF Park, e
  <1>4. /\ slots'[c] = Append(slots[c], e) /\ \A d \in Channels \ {c} : slots'[d] = slots[d]
        /\ slots[c] \in Seq(Slot) /\ Len(slots[c]) \in Nat
    BY <1>1, <1>3, LenProperties DEF TypeOK
  <1>5. Append(slots[c], e) \in Seq(Slot) /\ Len(Append(slots[c], e)) = Len(slots[c]) + 1
    BY <1>2, <1>4, AppendProperties
  <1>6. /\ slots' \in [Channels -> Seq(Slot)]
        /\ \A d \in Channels : head'[d] <= Len(slots'[d])
    BY <1>1, <1>3, <1>4, <1>5 DEF TypeOK, Park
  <1>7. /\ claims' = claims \cup {Claim(c, last[c] + 1, bytes)}
        /\ claims' \subseteq [chan : Channels, id : Nat, bytes : Nat]
    <2>1. Claim(c, last[c] + 1, bytes) \in [chan : Channels, id : Nat, bytes : Nat]
      <3>1. last[c] + 1 \in Nat
        BY <1>1
      <3>. QED  BY <3>1, ClaimType
    <2>. QED  BY <1>1, <2>1 DEF TypeOK, Park
  <1>8. TypeOK'
    BY <1>1, <1>6, <1>7 DEF TypeOK, Park
  <1>9. /\ Ordered(slots'[c], head[c], last[c] + 1)
        /\ FramesIn(slots'[c]) = FramesIn(slots[c]) \cup {e}
        /\ e \notin FramesIn(slots[c])
    <2>1. Ordered(slots[c], head[c], last[c])
      BY <1>1 DEF ChannelInv, ArrayInv
    <2>2. slots'[c] = Append(slots[c], e)
      BY <1>4
    <2>3. last[c] \in Nat /\ e \in Slot /\ e.id = last[c] + 1
      BY <1>1, <1>2
    <2>4. \A t : t = Append(slots[c], e) =>
               /\ Ordered(t, head[c], last[c] + 1)
               /\ FramesIn(t) = FramesIn(slots[c]) \cup {e}
               /\ e \notin FramesIn(slots[c])
      BY <2>1, <2>3, AppendFrame
    <2>. QED  BY <2>2, <2>4
  <1>10. Frames(c)' = Frames(c) \cup {e} /\ e \notin Frames(c)
    BY <1>9, FramesAre, FramesAreNext
  <1>11. Parked(c)' = Parked(c) \cup {last[c] + 1}
    BY <1>2, <1>10 DEF Parked
  <1>12. /\ last'[c] = last[c] + 1 /\ head'[c] = head[c] /\ timer'[c] = TRUE
         /\ queuedFrames'[c] = queuedFrames[c] + 1 /\ queuedFrames[c] \in Nat
         /\ status' = status /\ sent' = sent /\ cancelled' = cancelled
         /\ \A d \in Channels \ {c} : last'[d] = last[d] /\ head'[d] = head[d]
                /\ timer'[d] = timer[d] /\ queuedFrames'[d] = queuedFrames[d]
    BY <1>1 DEF Park, TypeOK
  <1>13. ChannelInv(c)'
    <2>1. ArrayInv(c)'
      BY <1>9, <1>12 DEF ArrayInv
    <2>2. CountInv(c)'
      <3>1. IsFiniteSet(Frames(c)') /\ Cardinality(Frames(c)') = Cardinality(Frames(c)) + 1
        BY <1>1, <1>10, FS_AddElement DEF ChannelInv, CountInv
      <3>2. ClaimsOf(c)' = ClaimsOf(c) \cup {Claim(c, last[c] + 1, bytes)}
        BY <1>7, ClaimOfChannel DEF ClaimsOf
      <3>3. ClaimsFor(c, Frames(c))' = ClaimsFor(c, Frames(c)) \cup {Claim(c, last[c] + 1, bytes)}
        BY <1>2, <1>10, ClaimsForMore DEF ClaimsFor
      <3>. QED  BY <1>1, <1>12, <3>1, <3>2, <3>3 DEF ChannelInv, CountInv
    <2>3. PollInv(c)'
      BY <1>1, <1>12 DEF PollInv
    <2>4. ReachInv(c)'
      <3>1. 1 .. last'[c] = (1 .. last[c]) \cup {last[c] + 1}
        BY <1>1, <1>12
      <3>2. 1 .. last[c] = SentBy(c) \cup Parked(c) \cup cancelled[c] /\ SentBy(c)' = SentBy(c)
        BY <1>1, <1>12 DEF ChannelInv, ReachInv, SentBy
      <3>. QED  BY <1>11, <1>12, <3>1, <3>2, Zenon DEF ReachInv
    <2>. QED  BY <2>1, <2>2, <2>3, <2>4 DEF ChannelInv
  <1>14. ASSUME NEW d \in Channels \ {c}
         PROVE  ChannelInv(d)' /\ Parked(d)' = Parked(d)
    <2>1. ClaimsOf(d)' = ClaimsOf(d)
      BY <1>7, ClaimOfChannel DEF ClaimsOf
    <2>2. QueueKept(d) /\ LinkKept(d)
      BY <1>4, <1>12, <2>1 DEF QueueKept, LinkKept
    <2>. QED  BY <1>1, <1>4, <2>2, KeptChannel, KeptFrames DEF IInv
  <1>. QED  BY <1>8, <1>11, <1>13, <1>14 DEF IInv

-----------------------------------------------------------------------------
(* Steps that leave the queues alone *)

LEMMA QueuesKept ==
    ASSUME IInv, UNCHANGED <<queueVars, draining, last, sent, cancelled>>,
           NEW d \in Channels, status'[d] = status[d] \/ (status'[d] = "closed" /\ draining = None)
    PROVE  ChannelInv(d)' /\ Parked(d)' = Parked(d)
  <1>. USE ChannelsAssumption
  <1>1. ChannelInv(d) /\ UNCHANGED <<slots, head, queuedFrames, timer, claims, draining, last, sent, cancelled>>
    BY DEF IInv, queueVars
  <1>2. Frames(d)' = Frames(d) /\ Parked(d)' = Parked(d)
    BY <1>1, KeptFrames
  <1>3. ArrayInv(d)'
    BY <1>1 DEF ChannelInv, ArrayInv
  <1>4. CountInv(d)'
    BY <1>1, <1>2 DEF ChannelInv, CountInv, ClaimsOf
  <1>5. PollInv(d)'
    BY <1>1, <1>2 DEF ChannelInv, PollInv
  <1>6. ReachInv(d)'
    <2>1. SentBy(d)' = SentBy(d)
      BY <1>1 DEF SentBy
    <2>. QED  BY <1>1, <1>2, <2>1 DEF ChannelInv, ReachInv
  <1>. QED  BY <1>2, <1>3, <1>4, <1>5, <1>6 DEF ChannelInv

LEMMA SendDirectKeeps ==
    ASSUME IInv, NEW c \in Channels, NEW bytes \in Nat, SendDirect(c, bytes), CanSend(bytes)
    PROVE  IInv' /\ \A d \in Channels : Parked(d)' = Parked(d)
  <1>1. TypeOK /\ UNCHANGED <<queueVars, status, draining, last, sent, cancelled>>
    BY DEF IInv, SendDirect
  <1>2. buffered' \in [Channels -> Nat]
    <2>1. buffered' = [buffered EXCEPT ![c] = @ + bytes]
      BY DEF SendDirect
    <2>2. buffered \in [Channels -> Nat]
      BY <1>1 DEF TypeOK
    <2>. QED  BY <2>1, <2>2
  <1>3. TypeOK'
    BY <1>1, <1>2 DEF TypeOK, queueVars
  <1>. QED  BY <1>1, <1>3, QueuesKept DEF IInv

LEMMA WireTakesKeeps ==
    ASSUME IInv, NEW c \in Channels, NEW left \in Nat, WireTakes(c, left)
    PROVE  IInv' /\ \A d \in Channels : Parked(d)' = Parked(d)
  <1>1. TypeOK /\ UNCHANGED <<queueVars, status, draining, last, sent, cancelled>>
    BY DEF IInv, WireTakes
  <1>2. buffered' \in [Channels -> Nat]
    BY <1>1 DEF TypeOK, WireTakes
  <1>3. TypeOK'
    BY <1>1, <1>2 DEF TypeOK, queueVars
  <1>. QED  BY <1>1, <1>3, QueuesKept DEF IInv

LEMMA SocketClosesKeeps ==
    ASSUME IInv, NEW c \in Channels, SocketCloses(c)
    PROVE  IInv' /\ \A d \in Channels : Parked(d)' = Parked(d)
  <1>1. TypeOK /\ UNCHANGED <<queueVars, draining, buffered, last, sent, cancelled>> /\ draining = None
    BY DEF IInv, SocketCloses, EventLoopFree
  <1>2. /\ status' \in [Channels -> {"open", "closed", "dead"}] /\ status'[c] = "closed"
        /\ \A d \in Channels \ {c} : status'[d] = status[d]
    BY <1>1 DEF TypeOK, SocketCloses
  <1>3. TypeOK'
    BY <1>1, <1>2 DEF TypeOK, queueVars
  <1>. QED  BY <1>1, <1>2, <1>3, QueuesKept DEF IInv

-----------------------------------------------------------------------------
(* Frames that leave *)

LEMMA ReleaseKeeps ==
    ASSUME IInv, NEW c \in Channels, NEW k \in FrameSlots(c), Release(c, k),
           Frames(c)' = Frames(c) \ {slots[c][k]}
    PROVE  /\ queued' \in [Channels -> Int] /\ queuedFrames' \in [Channels -> Nat]
           /\ claims' \subseteq [chan : Channels, id : Nat, bytes : Nat]
           /\ CountInv(c)' /\ queuedFrames'[c] = queuedFrames[c] - 1
           /\ Parked(c)' = Parked(c) \ {slots[c][k].id} /\ slots[c][k].id \in Parked(c)
           /\ \A d \in Channels \ {c} : queuedFrames'[d] = queuedFrames[d] /\ ClaimsOf(d)' = ClaimsOf(d)
  <1>. DEFINE f == slots[c][k]
  <1>1. TypeOK /\ ArrayInv(c) /\ CountInv(c) /\ slots[c] \in Seq(Slot)
    BY DEF IInv, ChannelInv, TypeOK
  <1>2. f \in Frames(c) /\ f.id \in Nat /\ f.bytes \in Nat
    BY <1>1, SlotTypes DEF FrameSlots, Frames
  <1>3. \A g \in Frames(c) : g.id = f.id => g = f
    BY <1>1, <1>2, FramesAre, FramesDiffer DEF ArrayInv
  <1>. HIDE DEF f
  <1>4. /\ queued' = [queued EXCEPT ![c] = @ - f.bytes]
        /\ queuedFrames' = [queuedFrames EXCEPT ![c] = @ - 1]
        /\ claims' = claims \ {Claim(c, f.id, f.bytes)}
        /\ Frames(c)' = Frames(c) \ {f}
    BY DEF Release, f
  <1>5. IsFiniteSet(Frames(c) \ {f}) /\ Cardinality(Frames(c) \ {f}) = Cardinality(Frames(c)) - 1
    BY <1>1, <1>2, FS_RemoveElement DEF CountInv
  <1>6. Cardinality(Frames(c) \ {f}) \in Nat
    BY <1>5, FS_CardinalityType
  <1>7. /\ queued' \in [Channels -> Int] /\ queuedFrames' \in [Channels -> Nat]
        /\ queuedFrames'[c] = queuedFrames[c] - 1
        /\ \A d \in Channels \ {c} : queuedFrames'[d] = queuedFrames[d]
    <2>1. queued \in [Channels -> Int] /\ queuedFrames \in [Channels -> Nat]
      BY <1>1 DEF TypeOK
    <2>2. queuedFrames[c] - 1 \in Nat
      BY <1>1, <1>5, <1>6 DEF CountInv
    <2>3. queued' \in [Channels -> Int]
      BY <1>2, <1>4, <2>1
    <2>. QED  BY <1>4, <2>1, <2>2, <2>3
  <1>8. claims' \subseteq [chan : Channels, id : Nat, bytes : Nat]
    BY <1>1, <1>4 DEF TypeOK
  <1>9. /\ ClaimsOf(c)' = ClaimsOf(c) \ {Claim(c, f.id, f.bytes)}
        /\ \A d \in Channels \ {c} : ClaimsOf(d)' = ClaimsOf(d)
    BY <1>4, ClaimOfChannel DEF ClaimsOf
  <1>10. ClaimsFor(c, Frames(c) \ {f}) = ClaimsFor(c, Frames(c)) \ {Claim(c, f.id, f.bytes)}
    <2>1. \A g \in Frames(c) : Claim(c, g.id, g.bytes) = Claim(c, f.id, f.bytes) => g = f
      BY <1>3 DEF Claim
    <2>. QED  BY <2>1 DEF ClaimsFor
  <1>11. CountInv(c)'
    <2>1. ClaimsFor(c, Frames(c))' = ClaimsFor(c, Frames(c) \ {f})
      BY <1>4 DEF ClaimsFor
    <2>. QED  BY <1>1, <1>4, <1>5, <1>7, <1>9, <1>10, <2>1 DEF CountInv
  <1>12. Parked(c)' = Parked(c) \ {f.id} /\ f.id \in Parked(c)
    BY <1>2, <1>3, <1>4 DEF Parked
  <1>. QED  BY <1>7, <1>8, <1>9, <1>11, <1>12 DEF f

LEMMA NoFrames ==
    ASSUME NEW c, CountInv(c), queuedFrames[c] = 0
    PROVE  Frames(c) = {} /\ ClaimsOf(c) = {} /\ Parked(c) = {}
  <1>1. Frames(c) = {}
    BY FS_EmptySet DEF CountInv
  <1>. QED  BY <1>1 DEF CountInv, ClaimsFor, Parked

LEMMA SlotsOfFrames ==
    ASSUME IInv, NEW c \in Channels, NEW k \in FrameSlots(c)
    PROVE  /\ k \in 1 .. Len(slots[c]) /\ slots[c][k].id # 0 /\ slots[c] \in Seq(Slot)
           /\ Len(slots[c]) \in Nat /\ last[c] \in Nat /\ head[c] \in 0 .. Len(slots[c])
           /\ Ordered(slots[c], head[c], last[c])
           /\ [slots[c] EXCEPT ![k] = Hole] \in Seq(Slot)
           /\ Len([slots[c] EXCEPT ![k] = Hole]) = Len(slots[c])
  <1>1. slots[c] \in Seq(Slot) /\ last[c] \in Nat /\ Ordered(slots[c], head[c], last[c])
    BY DEF IInv, TypeOK, ChannelInv, ArrayInv
  <1>2. k \in 1 .. Len(slots[c]) /\ slots[c][k].id # 0 /\ Len(slots[c]) \in Nat
    BY <1>1, SlotTypes DEF FrameSlots
  <1>3. [slots[c] EXCEPT ![k] = Hole] \in Seq(Slot) /\ Len([slots[c] EXCEPT ![k] = Hole]) = Len(slots[c])
    BY <1>1, <1>2, HoleIsSlot, ExceptSeq
  <1>4. head[c] \in 0 .. Len(slots[c])
    BY <1>1 DEF Ordered
  <1>. QED  BY <1>1, <1>2, <1>3, <1>4

LEMMA CancelKeeps ==
    ASSUME IInv, NEW c \in Channels, NEW k \in FrameSlots(c), Cancel(c, k)
    PROVE  /\ IInv'
           /\ \E i \in Parked(c) : Parked(c)' = Parked(c) \ {i}
           /\ \A d \in Channels \ {c} : Parked(d)' = Parked(d)
  <1>. USE ChannelsAssumption
  <1>. DEFINE t == [slots[c] EXCEPT ![k] = Hole]
  <1>1. /\ TypeOK /\ ChannelInv(c) /\ draining = None /\ Release(c, k)
        /\ UNCHANGED <<status, draining, buffered, last, sent>>
        /\ cancelled' = [cancelled EXCEPT ![c] = @ \cup {slots[c][k].id}]
    BY DEF IInv, Cancel, EventLoopFree
  <1>2. /\ k \in 1 .. Len(slots[c]) /\ slots[c][k].id # 0 /\ slots[c] \in Seq(Slot)
        /\ Len(slots[c]) \in Nat /\ last[c] \in Nat /\ head[c] \in 0 .. Len(slots[c])
        /\ Ordered(slots[c], head[c], last[c]) /\ t \in Seq(Slot) /\ Len(t) = Len(slots[c])
    BY SlotsOfFrames
  <1>. HIDE DEF t
  <1>3. /\ slots' \in [Channels -> Seq(Slot)] /\ head' \in [Channels -> Nat]
        /\ timer' \in [Channels -> BOOLEAN]
        /\ \A d \in Channels : head'[d] <= Len(slots'[d])
        /\ \A d \in Channels \ {c} : slots'[d] = slots[d] /\ head'[d] = head[d] /\ timer'[d] = timer[d]
        /\ ArrayInv(c)' /\ Frames(c)' = Frames(c) \ {slots[c][k]}
        /\ (timer'[c] <=> timer[c] /\ queuedFrames[c] # 1)
    <2>1. CASE queuedFrames[c] = 1
      <3>1. /\ slots' \in [Channels -> Seq(Slot)] /\ head' \in [Channels -> Nat]
            /\ timer' \in [Channels -> BOOLEAN]
            /\ slots'[c] = <<>> /\ head'[c] = 0 /\ timer'[c] = FALSE
            /\ \A d \in Channels \ {c} : slots'[d] = slots[d] /\ head'[d] = head[d] /\ timer'[d] = timer[d]
            /\ \A d \in Channels : head'[d] <= Len(slots'[d])
        BY <1>1, <2>1, EmptyKeeps DEF Cancel
      <3>2. ArrayInv(c)' /\ Frames(c)' = {}
        BY <3>1, EmptyArray, FramesAreNext DEF ArrayInv
      <3>3. slots[c][k] \in Frames(c)
        BY <1>2, FrameThere, FramesAre
      <3>4. Frames(c) \ {slots[c][k]} = {}
        <4>1. /\ IsFiniteSet(Frames(c) \ {slots[c][k]})
              /\ Cardinality(Frames(c) \ {slots[c][k]}) = Cardinality(Frames(c)) - 1
              /\ Cardinality(Frames(c)) = 1
          BY <1>1, <2>1, <3>3, FS_RemoveElement DEF ChannelInv, CountInv
        <4>2. Cardinality(Frames(c) \ {slots[c][k]}) = 0
          BY <4>1
        <4>. QED  BY <4>1, <4>2, FS_EmptySet
      <3>. QED  BY <2>1, <3>1, <3>2, <3>4
    <2>2. CASE queuedFrames[c] # 1
      <3>1. PICK m \in head[c] .. Len(t) :
                Advanced(t, head[c], m) /\ slots' = [slots EXCEPT ![c] = t] /\ head' = [head EXCEPT ![c] = m]
        BY <1>1, <2>2 DEF Cancel, Settle, t
      <3>2. /\ slots' \in [Channels -> Seq(Slot)] /\ slots'[c] = t
            /\ \A d \in Channels \ {c} : slots'[d] = slots[d]
        BY <1>1, <1>2, <3>1 DEF TypeOK
      <3>3. /\ head' \in [Channels -> Nat] /\ head'[c] = m /\ \A d \in Channels \ {c} : head'[d] = head[d]
        BY <1>1, <1>2, <3>1 DEF TypeOK
      <3>4. Ordered(t, m, last[c]) /\ FramesIn(t) = FramesIn(slots[c]) \ {slots[c][k]}
        <4>1. /\ head[c] \in 0 .. Len(slots[c])
              /\ \A j \in 1 .. head[c] : j <= head[c] \/ j = k
          BY <1>2
        <4>. QED  BY <1>2, <3>1, <4>1, TakeOut DEF t
      <3>5. ArrayInv(c)' /\ Frames(c)' = Frames(c) \ {slots[c][k]}
        BY <1>1, <3>2, <3>3, <3>4, FramesAre, FramesAreNext DEF ArrayInv
      <3>6. timer' = timer
        BY <2>2 DEF Cancel
      <3>7. \A d \in Channels : head'[d] <= Len(slots'[d])
        BY <1>1, <1>2, <3>1, <3>2, <3>3 DEF TypeOK
      <3>. QED  BY <1>1, <2>2, <3>2, <3>3, <3>5, <3>6, <3>7 DEF TypeOK
    <2>. QED  BY <2>1, <2>2
  <1>4. /\ queued' \in [Channels -> Int] /\ queuedFrames' \in [Channels -> Nat]
        /\ claims' \subseteq [chan : Channels, id : Nat, bytes : Nat]
        /\ CountInv(c)' /\ queuedFrames'[c] = queuedFrames[c] - 1
        /\ Parked(c)' = Parked(c) \ {slots[c][k].id} /\ slots[c][k].id \in Parked(c)
        /\ \A d \in Channels \ {c} : queuedFrames'[d] = queuedFrames[d] /\ ClaimsOf(d)' = ClaimsOf(d)
    BY <1>1, <1>3, ReleaseKeeps
  <1>5. /\ cancelled' \in [Channels -> SUBSET Nat]
        /\ cancelled'[c] = cancelled[c] \cup {slots[c][k].id}
        /\ \A d \in Channels \ {c} : cancelled'[d] = cancelled[d]
    <2>1. slots[c][k].id \in Nat
      BY <1>2, SlotTypes
    <2>. QED  BY <1>1, <2>1 DEF TypeOK
  <1>6. TypeOK'
    BY <1>1, <1>3, <1>4, <1>5 DEF TypeOK
  <1>7. ChannelInv(c)'
    <2>1. PollInv(c)'
      <3>1. queuedFrames[c] \in Nat /\ queuedFrames'[c] \in Nat /\ timer[c] \in BOOLEAN
        BY <1>1, <1>4 DEF TypeOK
      <3>. QED  BY <1>1, <1>3, <1>4, <3>1 DEF ChannelInv, PollInv
    <2>2. ReachInv(c)'
      <3>1. SentBy(c)' = SentBy(c)
        BY <1>1 DEF SentBy
      <3>. QED  BY <1>1, <1>4, <1>5, <3>1 DEF ChannelInv, ReachInv
    <2>. QED  BY <1>3, <1>4, <2>1, <2>2 DEF ChannelInv
  <1>8. ASSUME NEW d \in Channels \ {c}
        PROVE  ChannelInv(d)' /\ Parked(d)' = Parked(d)
    <2>1. QueueKept(d) /\ LinkKept(d)
      BY <1>1, <1>3, <1>4, <1>5 DEF QueueKept, LinkKept
    <2>. QED  BY <1>1, <1>3, <2>1, KeptChannel, KeptFrames DEF IInv
  <1>. QED  BY <1>4, <1>6, <1>7, <1>8 DEF IInv

(* What follows the head once its frame is taken out and, as the case may    *)
(* be, the consumed slots are cut off.                                       *)
LEMMA CompactKeeps ==
    ASSUME TypeOK, NEW c \in Channels, NEW t, NEW m, Ordered(t, m, last[c]), Compact(c, t, m)
    PROVE  /\ slots' \in [Channels -> Seq(Slot)] /\ head' \in [Channels -> Nat]
           /\ Ordered(slots'[c], head'[c], last[c]) /\ FramesIn(slots'[c]) = FramesIn(t)
           /\ \A d \in Channels : head'[d] <= Len(slots'[d])
           /\ \A d \in Channels \ {c} : slots'[d] = slots[d] /\ head'[d] = head[d]
  <1>1. t \in Seq(Slot) /\ Len(t) \in Nat /\ m \in Nat /\ m <= Len(t)
    BY SlotTypes DEF Ordered
  <1>2. \E u, n : /\ slots' = [slots EXCEPT ![c] = u] /\ head' = [head EXCEPT ![c] = n]
                  /\ Ordered(u, n, last[c]) /\ FramesIn(u) = FramesIn(t)
    <2>1. CASE m >= CompactionHead
      <3>1. /\ Ordered(SubSeq(t, m + 1, Len(t)), 0, last[c])
            /\ FramesIn(SubSeq(t, m + 1, Len(t))) = FramesIn(t)
        BY CutOff
      <3>. QED  BY <2>1, <3>1 DEF Compact
    <2>2. CASE ~(m >= CompactionHead)
      BY <2>2 DEF Compact
    <2>. QED  BY <2>1, <2>2
  <1>3. PICK u, n : /\ slots' = [slots EXCEPT ![c] = u] /\ head' = [head EXCEPT ![c] = n]
                    /\ Ordered(u, n, last[c]) /\ FramesIn(u) = FramesIn(t)
    BY <1>2
  <1>4. u \in Seq(Slot) /\ n \in Nat /\ n <= Len(u)
    BY <1>3, SlotTypes DEF Ordered
  <1>5. /\ slots' \in [Channels -> Seq(Slot)] /\ head' \in [Channels -> Nat]
        /\ slots'[c] = u /\ head'[c] = n
        /\ \A d \in Channels \ {c} : slots'[d] = slots[d] /\ head'[d] = head[d]
    BY <1>3, <1>4 DEF TypeOK
  <1>6. \A d \in Channels : head'[d] <= Len(slots'[d])
    BY <1>4, <1>5 DEF TypeOK
  <1>. QED  BY <1>3, <1>5, <1>6

LEMMA DrainTakesHead ==
    ASSUME IInv, NEW c \in Channels, draining = c, queuedFrames[c] > 0
    PROVE  /\ status[c] = "open" /\ head[c] + 1 \in FrameSlots(c)
           /\ HeadSlot(c).id \in Parked(c) /\ \A i \in Parked(c) : HeadSlot(c).id <= i
           /\ HeadSlot(c).id \in Nat /\ HeadSlot(c).bytes \in Nat
  <1>1. ChannelInv(c) /\ slots[c] \in Seq(Slot) /\ queuedFrames[c] \in Nat
    BY DEF IInv, TypeOK
  <1>2. Frames(c) # {}
    BY <1>1, FS_EmptySet DEF ChannelInv, CountInv
  <1>3. Ordered(slots[c], head[c], last[c]) /\ FramesIn(slots[c]) = Frames(c)
    BY <1>1, FramesAre DEF ChannelInv, ArrayInv
  <1>4. /\ head[c] + 1 \in 1 .. Len(slots[c]) /\ HeadSlot(c).id # 0 /\ HeadSlot(c) \in Frames(c)
        /\ \A f \in Frames(c) : HeadSlot(c).id <= f.id
    BY <1>2, <1>3, HeadIsOldest DEF HeadSlot
  <1>5. head[c] + 1 \in FrameSlots(c)
    BY <1>1, <1>4, SlotTypes DEF FrameSlots, HeadSlot
  <1>6. HeadSlot(c).id \in Nat /\ HeadSlot(c).bytes \in Nat
    BY <1>1, <1>4, SlotTypes DEF HeadSlot
  <1>7. HeadSlot(c).id \in Parked(c) /\ \A i \in Parked(c) : HeadSlot(c).id <= i
    BY <1>4 DEF Parked
  <1>. QED  BY <1>1, <1>5, <1>6, <1>7 DEF ChannelInv, PollInv

(* One iteration of drain that does not fail. *)
DrainSends(c) ==
    /\ draining = c /\ Sendable(c)
    /\ Release(c, head[c] + 1)
    /\ Put(c, HeadSlot(c).id, HeadSlot(c).bytes)
    /\ \E h : /\ Advanced([slots[c] EXCEPT ![head[c] + 1] = Hole], head[c] + 1, h)
              /\ Compact(c, [slots[c] EXCEPT ![head[c] + 1] = Hole], h)
    /\ UNCHANGED <<timer, status, draining, last, cancelled>>

LEMMA DrainSendsKeeps ==
    ASSUME IInv, NEW c \in Channels, DrainSends(c)
    PROVE  /\ IInv'
           /\ Parked(c)' = Parked(c) \ {HeadSlot(c).id}
           /\ \A d \in Channels \ {c} : Parked(d)' = Parked(d)
  <1>. USE ChannelsAssumption
  <1>. DEFINE k == head[c] + 1
              t == [slots[c] EXCEPT ![head[c] + 1] = Hole]
  <1>1. /\ TypeOK /\ ChannelInv(c) /\ draining = c /\ queuedFrames[c] > 0 /\ Release(c, k)
        /\ UNCHANGED <<timer, status, draining, last, cancelled>>
    BY DEF IInv, DrainSends, Sendable
  <1>2. /\ status[c] = "open" /\ k \in FrameSlots(c)
        /\ HeadSlot(c).id \in Nat /\ HeadSlot(c).bytes \in Nat /\ HeadSlot(c) = slots[c][k]
    BY <1>1, DrainTakesHead DEF HeadSlot
  <1>3. /\ k \in 1 .. Len(slots[c]) /\ slots[c][k].id # 0 /\ slots[c] \in Seq(Slot)
        /\ Len(slots[c]) \in Nat /\ last[c] \in Nat /\ head[c] \in 0 .. Len(slots[c])
        /\ Ordered(slots[c], head[c], last[c]) /\ t \in Seq(Slot) /\ Len(t) = Len(slots[c])
    BY <1>2, SlotsOfFrames
  <1>4. PICK m : Advanced(t, k, m) /\ Compact(c, t, m)
    BY DEF DrainSends
  <1>5. Ordered(t, m, last[c]) /\ FramesIn(t) = FramesIn(slots[c]) \ {slots[c][k]}
    <2>1. k \in 0 .. Len(slots[c]) /\ \A j \in 1 .. k : j <= head[c] \/ j = k
      BY <1>3
    <2>. QED  BY <1>3, <1>4, <2>1, TakeOut
  <1>. HIDE DEF t, k
  <1>6. /\ slots' \in [Channels -> Seq(Slot)] /\ head' \in [Channels -> Nat]
        /\ Ordered(slots'[c], head'[c], last[c]) /\ FramesIn(slots'[c]) = FramesIn(t)
        /\ \A d \in Channels : head'[d] <= Len(slots'[d])
        /\ \A d \in Channels \ {c} : slots'[d] = slots[d] /\ head'[d] = head[d]
    BY <1>1, <1>4, <1>5, CompactKeeps
  <1>7. ArrayInv(c)' /\ Frames(c)' = Frames(c) \ {slots[c][k]}
    BY <1>1, <1>5, <1>6, FramesAre, FramesAreNext DEF ArrayInv
  <1>8. /\ queued' \in [Channels -> Int] /\ queuedFrames' \in [Channels -> Nat]
        /\ claims' \subseteq [chan : Channels, id : Nat, bytes : Nat]
        /\ CountInv(c)' /\ queuedFrames'[c] = queuedFrames[c] - 1
        /\ Parked(c)' = Parked(c) \ {HeadSlot(c).id} /\ HeadSlot(c).id \in Parked(c)
        /\ \A d \in Channels \ {c} : queuedFrames'[d] = queuedFrames[d] /\ ClaimsOf(d)' = ClaimsOf(d)
    BY <1>1, <1>2, <1>7, ReleaseKeeps
  <1>9. /\ sent' \in [Channels -> Seq(Nat)] /\ \A d \in Channels \ {c} : sent'[d] = sent[d]
        /\ SentBy(c)' = SentBy(c) \cup {HeadSlot(c).id}
    <2>1. sent' = [sent EXCEPT ![c] = Append(@, HeadSlot(c).id)]
      BY DEF DrainSends, Put
    <2>. QED  BY <1>1, <1>2, <2>1, SentMore
  <1>10. buffered' \in [Channels -> Nat]
    <2>1. buffered' = [buffered EXCEPT ![c] = @ + HeadSlot(c).bytes] /\ buffered \in [Channels -> Nat]
      BY <1>1 DEF DrainSends, Put, TypeOK
    <2>. QED  BY <1>2, <2>1
  <1>11. TypeOK'
    BY <1>1, <1>6, <1>8, <1>9, <1>10 DEF TypeOK
  <1>12. ChannelInv(c)'
    <2>1. PollInv(c)'
      BY <1>1, <1>2 DEF PollInv
    <2>2. ReachInv(c)'
      BY <1>1, <1>8, <1>9 DEF ChannelInv, ReachInv
    <2>. QED  BY <1>7, <1>8, <2>1, <2>2 DEF ChannelInv
  <1>13. ASSUME NEW d \in Channels \ {c}
         PROVE  ChannelInv(d)' /\ Parked(d)' = Parked(d)
    <2>1. QueueKept(d) /\ LinkKept(d)
      BY <1>1, <1>6, <1>8, <1>9 DEF QueueKept, LinkKept
    <2>. QED  BY <1>1, <1>6, <2>1, KeptChannel, KeptFrames DEF IInv
  <1>. QED  BY <1>8, <1>11, <1>12, <1>13 DEF IInv

LEMMA DrainOneCases ==
    ASSUME NEW c, DrainOne(c)
    PROVE  draining = c /\ (DrainSends(c) \/ Overflow(c))
  BY DEF DrainOne, DrainSends

LEMMA DrainEndsKeeps ==
    ASSUME IInv, NEW c \in Channels, DrainEnds(c)
    PROVE  IInv' /\ \A d \in Channels : Parked(d)' = Parked(d)
  <1>. USE ChannelsAssumption
  <1>1. /\ TypeOK /\ ChannelInv(c) /\ draining = c /\ draining' = None /\ queuedFrames[c] \in Nat
        /\ UNCHANGED <<queued, queuedFrames, claims, status, buffered, last, sent, cancelled>>
    BY DEF IInv, DrainEnds, TypeOK
  <1>2. /\ slots' \in [Channels -> Seq(Slot)] /\ head' \in [Channels -> Nat]
        /\ timer' \in [Channels -> BOOLEAN]
        /\ \A d \in Channels : head'[d] <= Len(slots'[d])
        /\ \A d \in Channels \ {c} : slots'[d] = slots[d] /\ head'[d] = head[d] /\ timer'[d] = timer[d]
        /\ ArrayInv(c)' /\ Frames(c)' = Frames(c)
        /\ (timer'[c] <=> queuedFrames[c] > 0)
    <2>1. CASE queuedFrames[c] > 0
      <3>1. timer' = [timer EXCEPT ![c] = TRUE] /\ UNCHANGED <<slots, head>>
        BY <2>1 DEF DrainEnds
      <3>2. Frames(c)' = Frames(c) /\ ArrayInv(c)'
        BY <1>1, <3>1, KeptFrames DEF ChannelInv, ArrayInv
      <3>. QED  BY <1>1, <2>1, <3>1, <3>2 DEF TypeOK
    <2>2. CASE queuedFrames[c] = 0
      <3>1. Empty(c)
        BY <2>2 DEF DrainEnds
      <3>2. /\ slots' \in [Channels -> Seq(Slot)] /\ head' \in [Channels -> Nat]
            /\ timer' \in [Channels -> BOOLEAN]
            /\ slots'[c] = <<>> /\ head'[c] = 0 /\ timer'[c] = FALSE
            /\ \A d \in Channels \ {c} : slots'[d] = slots[d] /\ head'[d] = head[d] /\ timer'[d] = timer[d]
            /\ \A d \in Channels : head'[d] <= Len(slots'[d])
        BY <1>1, <3>1, EmptyKeeps
      <3>3. ArrayInv(c)' /\ Frames(c)' = {}
        BY <3>2, EmptyArray, FramesAreNext DEF ArrayInv
      <3>4. Frames(c) = {}
        BY <1>1, <2>2, NoFrames DEF ChannelInv
      <3>. QED  BY <2>2, <3>2, <3>3, <3>4
    <2>. QED  BY <1>1, <2>1, <2>2
  <1>3. TypeOK'
    BY <1>1, <1>2 DEF TypeOK
  <1>4. Parked(c)' = Parked(c)
    BY <1>2 DEF Parked
  <1>5. ChannelInv(c)'
    <2>1. CountInv(c)' /\ PollInv(c)'
      BY <1>1, <1>2 DEF ChannelInv, CountInv, PollInv, ClaimsOf, ClaimsFor
    <2>2. ReachInv(c)'
      BY <1>1, <1>4 DEF ChannelInv, ReachInv, SentBy
    <2>. QED  BY <1>2, <2>1, <2>2 DEF ChannelInv
  <1>6. ASSUME NEW d \in Channels \ {c}
        PROVE  ChannelInv(d)' /\ Parked(d)' = Parked(d)
    <2>1. QueueKept(d) /\ LinkKept(d)
      BY <1>1, <1>2 DEF QueueKept, LinkKept, ClaimsOf
    <2>. QED  BY <1>1, <1>2, <2>1, KeptChannel, KeptFrames DEF IInv
  <1>. QED  BY <1>3, <1>4, <1>5, <1>6 DEF IInv

(* The poll of a socket that is open starts the loop. *)
LEMMA PollStartsDrain ==
    ASSUME IInv, NEW c \in Channels, TimerFires(c), status[c] = "open"
    PROVE  IInv' /\ \A d \in Channels : Parked(d)' = Parked(d)
  <1>. USE ChannelsAssumption
  <1>1. /\ TypeOK /\ ChannelInv(c) /\ draining = None /\ draining' = c
        /\ timer' = [timer EXCEPT ![c] = FALSE] /\ Settle(c, slots[c], head[c])
        /\ UNCHANGED <<queued, queuedFrames, claims, status, buffered, last, sent, cancelled>>
    BY DEF IInv, TimerFires, EventLoopFree
  <1>2. UNCHANGED <<slots, head>>
    <2>1. PICK m \in head[c] .. Len(slots[c]) :
              /\ Advanced(slots[c], head[c], m)
              /\ slots' = [slots EXCEPT ![c] = slots[c]] /\ head' = [head EXCEPT ![c] = m]
      BY <1>1 DEF Settle
    <2>2. Ordered(slots[c], head[c], last[c]) /\ head[c] \in Nat /\ Len(slots[c]) \in Nat
      BY <1>1, SlotTypes DEF ChannelInv, ArrayInv, Ordered
    <2>3. m = head[c]
      <3>1. SUFFICES ASSUME head[c] < m
                     PROVE  FALSE
        BY <2>1, <2>2
      <3>2. head[c] < Len(slots[c]) /\ slots[c][head[c] + 1] = Hole
        BY <2>1, <2>2, <3>1 DEF Advanced
      <3>. QED  BY <2>2, <3>2, HoleIsSlot DEF Ordered
    <2>. QED  BY <1>1, <2>1, <2>3 DEF TypeOK
  <1>3. TypeOK' /\ timer' \in [Channels -> BOOLEAN] /\ \A d \in Channels \ {c} : timer'[d] = timer[d]
    BY <1>1, <1>2 DEF TypeOK
  <1>4. \A d \in Channels : Frames(d)' = Frames(d) /\ Parked(d)' = Parked(d)
    BY <1>2, KeptFrames
  <1>5. ChannelInv(c)'
    <2>1. ArrayInv(c)' /\ CountInv(c)'
      BY <1>1, <1>2, <1>4 DEF ChannelInv, ArrayInv, CountInv, ClaimsOf, ClaimsFor
    <2>2. PollInv(c)'
      BY <1>1 DEF PollInv
    <2>3. ReachInv(c)'
      BY <1>1, <1>4 DEF ChannelInv, ReachInv, SentBy
    <2>. QED  BY <2>1, <2>2, <2>3 DEF ChannelInv
  <1>6. ASSUME NEW d \in Channels \ {c}
        PROVE  ChannelInv(d)'
    <2>1. QueueKept(d) /\ LinkKept(d)
      BY <1>1, <1>2, <1>3 DEF QueueKept, LinkKept, ClaimsOf
    <2>. QED  BY <1>1, <2>1, KeptChannel DEF IInv
  <1>. QED  BY <1>3, <1>4, <1>5, <1>6 DEF IInv

(* The poll of one that is gone drops what it held. *)
LEMMA PollDropsBacklog ==
    ASSUME IInv, NEW c \in Channels, TimerFires(c), status[c] # "open"
    PROVE  /\ IInv' /\ Parked(c)' = {} /\ \A d \in Channels \ {c} : Parked(d)' = Parked(d)
  <1>. USE ChannelsAssumption
  <1>1. /\ TypeOK /\ DropBacklog(c) /\ draining = None
        /\ UNCHANGED <<draining, status, buffered, last, sent, cancelled>>
    BY DEF IInv, TimerFires, EventLoopFree
  <1>2. TypeOK'
    BY <1>1, DropBacklogKeeps DEF TypeOK
  <1>3. ChannelInv(c)' /\ Parked(c)' = {}
    <2>1. /\ ArrayInv(c)' /\ CountInv(c)' /\ Frames(c)' = {} /\ timer'[c] = FALSE /\ queuedFrames'[c] = 0
          /\ Parked(c)' = {}
      BY <1>1, DropBacklogKeeps
    <2>. QED  BY <1>1, <2>1 DEF ChannelInv, PollInv, ReachInv
  <1>4. ASSUME NEW d \in Channels \ {c}
        PROVE  ChannelInv(d)' /\ Parked(d)' = Parked(d)
    <2>1. QueueKept(d)
      BY <1>1, DropBacklogKeeps
    <2>2. LinkKept(d)
      BY <1>1 DEF LinkKept
    <2>. QED  BY <1>1, <2>1, <2>2, KeptChannel, KeptFrames DEF IInv, QueueKept
  <1>. QED  BY <1>2, <1>3, <1>4 DEF IInv

-----------------------------------------------------------------------------
(* Every step keeps the invariant *)

LEMMA EnqueueCases ==
    ASSUME NEW c, NEW bytes, Enqueue(c, bytes)
    PROVE  /\ EventLoopFree /\ status[c] = "open"
           /\ \/ SendNow(c, bytes) /\ queuedFrames[c] = 0
              \/ Park(c, bytes)
              \/ Overflow(c)
  BY DEF Enqueue, FastPath

LEMMA SendDirectCases ==
    ASSUME NEW c, NEW bytes, SendDirect(c, bytes)
    PROVE  EventLoopFree /\ (CanSend(bytes) \/ Overflow(c))
  BY DEF SendDirect

LEMMA StepCases ==
    ASSUME Next
    PROVE  \E c \in Channels :
              \/ \E bytes \in Nat : Enqueue(c, bytes) \/ SendDirect(c, bytes)
              \/ \E k \in FrameSlots(c) : Cancel(c, k)
              \/ TimerFires(c) \/ DrainOne(c) \/ DrainEnds(c)
              \/ \E left \in Nat : WireTakes(c, left)
              \/ SocketCloses(c) \/ Dispose(c)
  <1>1. PICK c \in Channels :
            \/ \E bytes \in Sizes : Enqueue(c, bytes) \/ SendDirect(c, bytes)
            \/ \E k \in FrameSlots(c) : Cancel(c, k)
            \/ TimerFires(c) \/ Drain(c)
            \/ \E left \in 0 .. buffered[c] : WireTakes(c, left)
            \/ SocketCloses(c) \/ Dispose(c)
    BY DEF Next
  <1>2. Sizes \subseteq Nat /\ \A left \in 0 .. buffered[c] : left \in Nat
    BY SizesAssumption
  <1>. QED  BY <1>1, <1>2 DEF Drain

LEMMA InitInv == Init => IInv
  <1>. SUFFICES ASSUME Init PROVE IInv
    OBVIOUS
  <1>. USE ChannelsAssumption
  <1>0. <<>> \in Seq(Slot) /\ <<>> \in Seq(Nat) /\ Len(<<>>) = 0 /\ DOMAIN <<>> = 1 .. 0
    BY EmptySeq
  <1>1. TypeOK
    <2>1. slots \in [Channels -> Seq(Slot)] /\ sent \in [Channels -> Seq(Nat)]
      BY <1>0 DEF Init
    <2>2. \A c \in Channels : head[c] <= Len(slots[c])
      BY <1>0 DEF Init
    <2>. QED  BY <2>1, <2>2 DEF Init, TypeOK
  <1>2. ASSUME NEW c \in Channels
        PROVE  ChannelInv(c)
    <2>1. slots[c] = <<>> /\ head[c] = 0 /\ queuedFrames[c] = 0 /\ last[c] = 0 /\ sent[c] = <<>>
          /\ timer[c] = FALSE /\ status[c] = "open" /\ draining = None /\ cancelled[c] = {} /\ claims = {}
      BY DEF Init
    <2>2. Frames(c) = {} /\ Cardinality(Frames(c)) = 0 /\ IsFiniteSet(Frames(c))
      BY <2>1, EmptyArray, FramesAre, FS_EmptySet
    <2>3. ArrayInv(c)
      BY <2>1, EmptyArray DEF ArrayInv
    <2>4. CountInv(c)
      BY <2>1, <2>2 DEF CountInv, ClaimsOf, ClaimsFor
    <2>5. PollInv(c)
      BY <2>1, <2>2 DEF PollInv
    <2>6. ReachInv(c)
      <3>1. SentBy(c) = {} /\ Parked(c) = {}
        BY <1>0, <2>1, <2>2 DEF SentBy, Parked
      <3>. QED  BY <2>1, <3>1 DEF ReachInv
    <2>. QED  BY <2>3, <2>4, <2>5, <2>6 DEF ChannelInv
  <1>. QED  BY <1>1, <1>2 DEF IInv

LEMMA StepInv == IInv /\ [Next]_vars => IInv'
  <1>. SUFFICES ASSUME IInv, [Next]_vars
                PROVE  IInv'
    OBVIOUS
  <1>1. CASE UNCHANGED vars
    <2>1. TypeOK'
      BY <1>1 DEF IInv, TypeOK, vars, queueVars
    <2>2. \A d \in Channels : ChannelInv(d)'
      BY <1>1, QueuesKept DEF vars
    <2>. QED  BY <2>1, <2>2 DEF IInv
  <1>2. CASE Next
    <2>0. PICK c \in Channels :
              \/ \E bytes \in Nat : Enqueue(c, bytes) \/ SendDirect(c, bytes)
              \/ \E k \in FrameSlots(c) : Cancel(c, k)
              \/ TimerFires(c) \/ DrainOne(c) \/ DrainEnds(c)
              \/ \E left \in Nat : WireTakes(c, left)
              \/ SocketCloses(c) \/ Dispose(c)
      BY <1>2, StepCases
    <2>1. ASSUME NEW bytes \in Nat, Enqueue(c, bytes)
          PROVE  IInv'
      <3>1. EventLoopFree /\ status[c] = "open" /\ (SendNow(c, bytes) \/ Park(c, bytes) \/ Overflow(c))
        BY <2>1, EnqueueCases
      <3>. QED  BY <3>1, SendNowKeeps, ParkKeeps, OverflowKeeps DEF EventLoopFree
    <2>2. ASSUME NEW bytes \in Nat, SendDirect(c, bytes)
          PROVE  IInv'
      BY <2>2, SendDirectCases, SendDirectKeeps, OverflowKeeps DEF EventLoopFree
    <2>3. ASSUME NEW k \in FrameSlots(c), Cancel(c, k)
          PROVE  IInv'
      BY <2>3, CancelKeeps
    <2>4. CASE TimerFires(c)
      BY <2>4, PollStartsDrain, PollDropsBacklog
    <2>5. CASE DrainOne(c)
      BY <2>5, DrainOneCases, DrainSendsKeeps, OverflowKeeps
    <2>6. CASE DrainEnds(c)
      BY <2>6, DrainEndsKeeps
    <2>7. ASSUME NEW left \in Nat, WireTakes(c, left)
          PROVE  IInv'
      BY <2>7, WireTakesKeeps
    <2>8. CASE SocketCloses(c)
      BY <2>8, SocketClosesKeeps
    <2>9. CASE Dispose(c)
      BY <2>9, DisposeKeeps
    <2>. QED  BY <2>0, <2>1, <2>2, <2>3, <2>4, <2>5, <2>6, <2>7, <2>8, <2>9
  <1>. QED  BY <1>1, <1>2

(* The inductive invariant holds of every run of the queues: each array is   *)
(* ordered, and counters, claims and timers are about the frames in it.      *)
THEOREM QueueInvariant == Spec => []IInv
  <1>. QED  BY InitInv, StepInv, PTL DEF Spec

(* The variables of the queues keep their types. *)
THEOREM QueueTypes == Spec => []TypeOK
  <1>1. IInv => TypeOK
    BY DEF IInv
  <1>. QED  BY <1>1, QueueInvariant, PTL

(* drain and its admission check always find a frame at the head of a queue  *)
(* that counts one, whatever was cancelled and compacted before.             *)
THEOREM QueueHeadIsFrame == Spec => []HeadIsFrame
  <1>1. ASSUME IInv, NEW c \in Channels, queuedFrames[c] > 0
        PROVE  head[c] < Len(slots[c]) /\ HeadSlot(c) # Hole
    <2>1. ChannelInv(c) /\ slots[c] \in Seq(Slot) /\ queuedFrames[c] \in Nat /\ head[c] \in Nat
      BY <1>1 DEF IInv, TypeOK
    <2>2. FramesIn(slots[c]) # {}
      BY <1>1, <2>1, FramesAre, FS_EmptySet DEF ChannelInv, CountInv
    <2>3. head[c] + 1 \in 1 .. Len(slots[c]) /\ HeadSlot(c).id # 0 /\ Len(slots[c]) \in Nat
      BY <2>1, <2>2, HeadIsOldest, SlotTypes DEF ChannelInv, ArrayInv, HeadSlot
    <2>. QED  BY <2>1, <2>3, HoleIsSlot
  <1>2. IInv => HeadIsFrame
    BY <1>1 DEF HeadIsFrame
  <1>. QED  BY <1>2, QueueInvariant, PTL

(* The counters agree with the arrays, and the memory budget with the        *)
(* queues: no claim leaks and none is released twice.                        *)
THEOREM QueueClaimsMatch == Spec => []ClaimsMatch
  <1>1. IInv => ClaimsMatch
    BY DEF IInv, ChannelInv, CountInv, PollInv, ClaimsMatch, ClaimsFor
  <1>. QED  BY <1>1, QueueInvariant, PTL

(* A queue with frames has its poll armed, and an empty one has not.         *)
THEOREM QueueIsPolled == Spec => []ParkedIsPolled
  <1>1. IInv => ParkedIsPolled
    BY DEF IInv, ChannelInv, PollInv, ParkedIsPolled
  <1>. QED  BY <1>1, QueueInvariant, PTL

(* While a socket is open every frame its channel accepted is sent, parked   *)
(* or cancelled.                                                             *)
THEOREM QueueSkipsNothing == Spec => []NothingSkipped
  <1>1. IInv => NothingSkipped
    BY DEF IInv, ChannelInv, ReachInv, SentBy, NothingSkipped
  <1>. QED  BY <1>1, QueueInvariant, PTL

-----------------------------------------------------------------------------
(* The queue implements the ordered link *)

LEMMA PendingSame ==
    ASSUME \A d \in Channels : Parked(d)' = Parked(d)
    PROVE  pending' = pending
  BY DEF pending

LEMMA PendingAt ==
    ASSUME NEW c \in Channels, NEW S, Parked(c)' = S,
           \A d \in Channels \ {c} : Parked(d)' = Parked(d)
    PROVE  pending' = [pending EXCEPT ![c] = S] /\ pending[c] = Parked(c)
  BY DEF pending

LEMMA UpSame ==
    ASSUME status' = status
    PROVE  up' = up
  BY DEF up

LEMMA UpDown ==
    ASSUME TypeOK, NEW c \in Channels, NEW x, x # "open", status' = [status EXCEPT ![c] = x]
    PROVE  up' = [up EXCEPT ![c] = FALSE]
  BY DEF up, TypeOK

LEMMA FailMaps ==
    ASSUME IInv, NEW c \in Channels, NEW x, x # "open", status' = [status EXCEPT ![c] = x],
           Parked(c)' = {}, \A d \in Channels \ {c} : Parked(d)' = Parked(d), UNCHANGED <<last, sent>>
    PROVE  Link!Fail(c)
  <1>1. pending' = [pending EXCEPT ![c] = {}]
    BY PendingAt
  <1>2. up' = [up EXCEPT ![c] = FALSE]
    BY UpDown DEF IInv
  <1>. QED  BY <1>1, <1>2 DEF Link!Fail

LEMMA OverflowMaps ==
    ASSUME IInv, NEW c \in Channels, Overflow(c), draining \in {None, c}
    PROVE  Link!Fail(c)
  BY OverflowKeeps, FailMaps DEF Overflow, Destroy

LEMMA SendNowMaps ==
    ASSUME IInv, NEW c \in Channels, NEW bytes \in Nat, EventLoopFree, status[c] = "open",
           SendNow(c, bytes), queuedFrames[c] = 0
    PROVE  Link!AcceptAndSend(c)
  <1>1. pending' = pending /\ up' = up
    BY SendNowKeeps, PendingSame, UpSame DEF SendNow
  <1>2. pending[c] = {} /\ up[c]
    BY NoFrames DEF IInv, ChannelInv, pending, up
  <1>. QED  BY <1>1, <1>2 DEF Link!AcceptAndSend, SendNow, Put

LEMMA ParkMaps ==
    ASSUME IInv, NEW c \in Channels, NEW bytes \in Nat, EventLoopFree, status[c] = "open",
           Park(c, bytes)
    PROVE  Link!Accept(c)
  <1>1. pending' = [pending EXCEPT ![c] = Parked(c) \cup {last[c] + 1}] /\ pending[c] = Parked(c)
    BY ParkKeeps, PendingAt
  <1>2. up' = up /\ up[c]
    BY UpSame DEF Park, up
  <1>3. pending' = [pending EXCEPT ![c] = @ \cup {last[c] + 1}]
    BY <1>1
  <1>. QED  BY <1>2, <1>3 DEF Link!Accept, Park

LEMMA CancelMaps ==
    ASSUME IInv, NEW c \in Channels, NEW k \in FrameSlots(c), Cancel(c, k)
    PROVE  Link!Cancel(c)
  <1>1. PICK i \in Parked(c) : Parked(c)' = Parked(c) \ {i}
    BY CancelKeeps
  <1>2. \A d \in Channels \ {c} : Parked(d)' = Parked(d)
    BY CancelKeeps
  <1>3. pending' = [pending EXCEPT ![c] = Parked(c) \ {i}] /\ pending[c] = Parked(c)
    BY <1>1, <1>2, PendingAt
  <1>4. up' = up /\ UNCHANGED <<last, sent>>
    BY UpSame DEF Cancel
  <1>5. \E j \in pending[c] : pending' = [pending EXCEPT ![c] = @ \ {j}]
    BY <1>1, <1>3
  <1>. QED  BY <1>4, <1>5 DEF Link!Cancel

LEMMA DrainSendsMaps ==
    ASSUME IInv, NEW c \in Channels, DrainSends(c)
    PROVE  Link!Deliver(c)
  <1>. DEFINE i == HeadSlot(c).id
  <1>1. /\ status[c] = "open" /\ i \in Parked(c) /\ \A j \in Parked(c) : i <= j
    BY DrainTakesHead DEF DrainSends, Sendable
  <1>2. pending' = [pending EXCEPT ![c] = Parked(c) \ {i}] /\ pending[c] = Parked(c)
    BY DrainSendsKeeps, PendingAt
  <1>3. up' = up /\ up[c] /\ last' = last /\ sent' = [sent EXCEPT ![c] = Append(@, i)]
    BY <1>1, UpSame DEF DrainSends, Put, up
  <1>. HIDE DEF i
  <1>4. pending' = [pending EXCEPT ![c] = @ \ {i}]
    BY <1>2
  <1>. QED  BY <1>1, <1>2, <1>3, <1>4 DEF Link!Deliver

LEMMA LinkInitMaps == Init => Link!LinkInit
  <1>. SUFFICES ASSUME Init PROVE Link!LinkInit
    OBVIOUS
  <1>1. ASSUME NEW c \in Channels
        PROVE  Parked(c) = {}
    <2>1. Frames(c) = {}
      BY EmptyArray, FramesAre DEF Init
    <2>. QED  BY <2>1 DEF Parked
  <1>2. pending = [c \in Channels |-> {}]
    BY <1>1 DEF pending
  <1>3. up = [c \in Channels |-> TRUE]
    BY DEF Init, up
  <1>. QED  BY <1>2, <1>3 DEF Init, Link!LinkInit

LEMMA LinkStepMaps == IInv /\ [Next]_vars => [Link!LinkNext]_(Link!lvars)
  <1>. SUFFICES ASSUME IInv, [Next]_vars
                PROVE  [Link!LinkNext]_(Link!lvars)
    OBVIOUS
  <1>. USE DEF Link!LinkNext
  <1>0. ASSUME \A d \in Channels : Parked(d)' = Parked(d), UNCHANGED <<last, sent, status>>
        PROVE  UNCHANGED Link!lvars
    BY <1>0, PendingSame, UpSame DEF Link!lvars
  <1>1. CASE UNCHANGED vars
    BY <1>0, <1>1, KeptFrames DEF vars, queueVars
  <1>2. CASE Next
    <2>0. PICK c \in Channels :
              \/ \E bytes \in Nat : Enqueue(c, bytes) \/ SendDirect(c, bytes)
              \/ \E k \in FrameSlots(c) : Cancel(c, k)
              \/ TimerFires(c) \/ DrainOne(c) \/ DrainEnds(c)
              \/ \E left \in Nat : WireTakes(c, left)
              \/ SocketCloses(c) \/ Dispose(c)
      BY <1>2, StepCases
    <2>1. ASSUME NEW bytes \in Nat, Enqueue(c, bytes)
          PROVE  Link!LinkNext
      <3>1. EventLoopFree /\ status[c] = "open"
            /\ ((SendNow(c, bytes) /\ queuedFrames[c] = 0) \/ Park(c, bytes) \/ Overflow(c))
        BY <2>1, EnqueueCases
      <3>. QED  BY <3>1, SendNowMaps, ParkMaps, OverflowMaps DEF EventLoopFree
    <2>2. ASSUME NEW bytes \in Nat, SendDirect(c, bytes)
          PROVE  [Link!LinkNext]_(Link!lvars)
      <3>1. CASE CanSend(bytes)
        BY <1>0, <2>2, <3>1, SendDirectKeeps DEF SendDirect
      <3>2. CASE Overflow(c)
        BY <2>2, <3>2, OverflowMaps DEF SendDirect, EventLoopFree
      <3>. QED  BY <2>2, <3>1, <3>2, SendDirectCases
    <2>3. ASSUME NEW k \in FrameSlots(c), Cancel(c, k)
          PROVE  Link!LinkNext
      BY <2>3, CancelMaps
    <2>4. CASE TimerFires(c)
      <3>1. CASE status[c] = "open"
        BY <1>0, <2>4, <3>1, PollStartsDrain DEF TimerFires
      <3>2. CASE status[c] # "open"
        <4>1. Parked(c)' = {} /\ \A d \in Channels \ {c} : Parked(d)' = Parked(d)
          BY <2>4, <3>2, PollDropsBacklog
        <4>2. status' = [status EXCEPT ![c] = status[c]] /\ UNCHANGED <<last, sent>>
          BY <2>4 DEF TimerFires, IInv, TypeOK
        <4>. QED  BY <3>2, <4>1, <4>2, FailMaps
      <3>. QED  BY <3>1, <3>2
    <2>5. CASE DrainOne(c)
      BY <2>5, DrainOneCases, DrainSendsMaps, OverflowMaps
    <2>6. CASE DrainEnds(c)
      BY <1>0, <2>6, DrainEndsKeeps DEF DrainEnds
    <2>7. ASSUME NEW left \in Nat, WireTakes(c, left)
          PROVE  UNCHANGED Link!lvars
      BY <1>0, <2>7, WireTakesKeeps DEF WireTakes
    <2>8. CASE SocketCloses(c)
      <3>1. pending' = pending
        BY <2>8, SocketClosesKeeps, PendingSame
      <3>2. up' = [up EXCEPT ![c] = FALSE]
        BY <2>8, UpDown DEF SocketCloses, IInv
      <3>. QED  BY <2>8, <3>1, <3>2 DEF SocketCloses, Link!Fail
    <2>9. CASE Dispose(c)
      BY <2>9, DisposeKeeps, FailMaps DEF Dispose, Destroy
    <2>. QED  BY <2>0, <2>1, <2>2, <2>3, <2>4, <2>5, <2>6, <2>7, <2>8, <2>9
  <1>. QED  BY <1>1, <1>2

(* Each channel is an ordered link: its frames leave in the order in which   *)
(* they were accepted, once each, and only a cancellation or the end of the  *)
(* channel takes one away.                                                   *)
THEOREM QueueKeepsOrder == Spec => KeepsOrder
  <1>. QED  BY LinkInitMaps, LinkStepMaps, QueueInvariant, PTL DEF Spec, KeepsOrder, Link!LinkSpec
=============================================================================
