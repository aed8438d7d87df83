------------------------ MODULE OutboundBudgetProofs ------------------------
(***************************************************************************)
(* The sums of module OutboundQueues: what the queues hold of the memory   *)
(* budget, what the budget counts, and what the sockets hold together.     *)
(*                                                                         *)
(* A sum is the number of the units it counts, so that one lemma is enough *)
(* for all that follows: the units of one member can be split off.  Then   *)
(* the step cases are few: a step parks a frame, releases one, drops the   *)
(* backlog of one channel, or leaves the counters and claims alone; and it *)
(* adds what canSend admitted to one socket, takes from it, or does        *)
(* neither.                                                                *)
(***************************************************************************)
EXTENDS OutboundQueuesProofs

(* The units of x apart from those of the other members. *)
Rest(f, x) == [y \in DOMAIN f \ {x} |-> f[y]]

LEMMA DisjointUnion ==
    ASSUME NEW A, IsFiniteSet(A), NEW B, IsFiniteSet(B), A \cap B = {}
    PROVE  /\ IsFiniteSet(A \cup B)
           /\ Cardinality(A \cup B) = Cardinality(A) + Cardinality(B)
  <1>1. Cardinality(A \cup B) = Cardinality(A) + Cardinality(B) - Cardinality(A \cap B)
    BY FS_Union
  <1>2. Cardinality(A \cap B) = 0
    BY FS_EmptySet
  <1>3. Cardinality(A) \in Nat /\ Cardinality(B) \in Nat
    BY FS_CardinalityType
  <1>4. IsFiniteSet(A \cup B)
    BY FS_Union
  <1>. QED  BY <1>1, <1>2, <1>3, <1>4

LEMMA Column ==
    ASSUME NEW x, NEW n \in Nat
    PROVE  IsFiniteSet({x} \X (1 .. n)) /\ Cardinality({x} \X (1 .. n)) = n
  <1>1. IsFiniteSet({x}) /\ Cardinality({x}) = 1
    BY FS_Singleton
  <1>2. IsFiniteSet(1 .. n) /\ Cardinality(1 .. n) = n
    <2>1. 1 \in Int /\ n \in Int
      OBVIOUS
    <2>2. IsFiniteSet(1 .. n) /\ Cardinality(1 .. n) = IF 1 > n THEN 0 ELSE n - 1 + 1
      BY <2>1, FS_Interval
    <2>. QED  BY <2>2
  <1>3. /\ IsFiniteSet({x} \X (1 .. n))
        /\ Cardinality({x} \X (1 .. n)) = Cardinality({x}) * Cardinality(1 .. n)
    BY <1>1, <1>2, FS_Product
  <1>. QED  BY <1>1, <1>2, <1>3

LEMMA UnitIn ==
    ASSUME NEW f, NEW u
    PROVE  u \in Units(f) <=> \E y \in DOMAIN f : u \in {y} \X (1 .. f[y])
  BY DEF Units

LEMMA UnitsFinite ==
    ASSUME NEW S, IsFiniteSet(S), NEW f \in [S -> Nat]
    PROVE  IsFiniteSet(Units(f)) /\ Total(f) \in Nat
  <1>. DEFINE g == [x \in S |-> {x} \X (1 .. f[x])]
              T == {{x} \X (1 .. f[x]) : x \in S}
  <1>1. g \in Surjection(S, T)
    <2>1. \A x \in S : g[x] \in T
      OBVIOUS
    <2>2. g \in [S -> T]
      BY <2>1
    <2>3. \A t \in T : \E x \in S : g[x] = t
      OBVIOUS
    <2>. QED  BY <2>2, <2>3 DEF Surjection
  <1>2. IsFiniteSet(T)
    BY <1>1, FS_Surjection
  <1>3. ASSUME NEW x \in S
        PROVE  IsFiniteSet({x} \X (1 .. f[x]))
    <2>1. f[x] \in Nat
      OBVIOUS
    <2>. QED  BY <2>1, Column
  <1>4. IsFiniteSet(UNION T)
    BY <1>2, <1>3, FS_UNION
  <1>5. Units(f) = UNION T
    BY DEF Units
  <1>. QED  BY <1>4, <1>5, FS_CardinalityType DEF Total

LEMMA TotalSplit ==
    ASSUME NEW S, IsFiniteSet(S), NEW f \in [S -> Nat], NEW x \in S
    PROVE  /\ Total(f) = Total(Rest(f, x)) + f[x]
           /\ Total(Rest(f, x)) \in Nat /\ Total(f) \in Nat
  <1>. DEFINE X == {x} \X (1 .. f[x])
  <1>1. Rest(f, x) \in [S \ {x} -> Nat] /\ IsFiniteSet(S \ {x})
    BY FS_RemoveElement DEF Rest
  <1>2. IsFiniteSet(Units(Rest(f, x))) /\ Total(Rest(f, x)) \in Nat /\ Total(f) \in Nat
    BY <1>1, UnitsFinite
  <1>3. IsFiniteSet(X) /\ Cardinality(X) = f[x]
    <2>1. f[x] \in Nat
      OBVIOUS
    <2>. QED  BY <2>1, Column
  <1>4. Units(f) = Units(Rest(f, x)) \cup X
    <2>1. ASSUME NEW u
          PROVE  u \in Units(f) <=> u \in Units(Rest(f, x)) \/ u \in X
      <3>1. u \in Units(f) <=> \E y \in S : u \in {y} \X (1 .. f[y])
        BY UnitIn
      <3>2. u \in Units(Rest(f, x)) <=> \E y \in S \ {x} : u \in {y} \X (1 .. f[y])
        BY UnitIn DEF Rest
      <3>. QED  BY <3>1, <3>2
    <2>. QED  BY <2>1
  <1>5. Units(Rest(f, x)) \cap X = {}
    <2>1. ASSUME NEW u, u \in Units(Rest(f, x)), u \in X
          PROVE  FALSE
      <3>1. PICK y \in S \ {x} : u \in {y} \X (1 .. f[y])
        BY <2>1, UnitIn DEF Rest
      <3>2. u[1] = y /\ u[1] = x
        BY <2>1, <3>1
      <3>. QED  BY <3>2
    <2>. QED  BY <2>1
  <1>. HIDE DEF X
  <1>6. Cardinality(Units(f)) = Cardinality(Units(Rest(f, x))) + Cardinality(X)
    BY <1>2, <1>3, <1>4, <1>5, DisjointUnion
  <1>. QED  BY <1>2, <1>3, <1>6 DEF Total

(* What happens to the sum when one member's count changes. *)
LEMMA TotalAt ==
    ASSUME NEW S, IsFiniteSet(S), NEW f \in [S -> Nat], NEW g \in [S -> Nat], NEW x \in S,
           \A y \in S \ {x} : g[y] = f[y]
    PROVE  Total(g) = Total(f) - f[x] + g[x] /\ Total(f) \in Nat /\ Total(g) \in Nat
  <1>1. Rest(g, x) = Rest(f, x)
    BY DEF Rest
  <1>2. /\ Total(f) = Total(Rest(f, x)) + f[x] /\ Total(Rest(f, x)) \in Nat /\ Total(f) \in Nat
        /\ Total(g) = Total(Rest(g, x)) + g[x] /\ Total(g) \in Nat
    BY TotalSplit
  <1>3. f[x] \in Nat /\ g[x] \in Nat
    OBVIOUS
  <1>. QED  BY <1>1, <1>2, <1>3

LEMMA TotalOfNothing ==
    ASSUME NEW f, \A x \in DOMAIN f : f[x] = 0
    PROVE  Total(f) = 0
  <1>1. Units(f) = {}
    BY DEF Units
  <1>. QED  BY <1>1, FS_EmptySet DEF Total

-----------------------------------------------------------------------------
(* The bytes of a set of claims *)

HasBytes(S) == IsFiniteSet(S) /\ \A cl \in S : cl.bytes \in Nat

LEMMA BytesType ==
    ASSUME NEW S, HasBytes(S)
    PROVE  BytesIn(S) \in Nat
  <1>1. [cl \in S |-> cl.bytes] \in [S -> Nat]
    BY DEF HasBytes
  <1>. QED  BY <1>1, UnitsFinite DEF BytesIn, HasBytes

LEMMA BytesRemove ==
    ASSUME NEW S, HasBytes(S), NEW x \in S
    PROVE  BytesIn(S \ {x}) = BytesIn(S) - x.bytes /\ HasBytes(S \ {x})
  <1>. DEFINE f == [cl \in S |-> cl.bytes]
  <1>1. f \in [S -> Nat] /\ f[x] = x.bytes /\ x.bytes \in Nat
    BY DEF HasBytes
  <1>2. Rest(f, x) = [cl \in S \ {x} |-> cl.bytes]
    BY DEF Rest
  <1>3. Total(f) = Total(Rest(f, x)) + f[x] /\ Total(Rest(f, x)) \in Nat /\ Total(f) \in Nat
    BY <1>1, TotalSplit DEF HasBytes
  <1>4. HasBytes(S \ {x})
    BY FS_RemoveElement DEF HasBytes
  <1>. QED  BY <1>1, <1>2, <1>3, <1>4 DEF BytesIn

LEMMA BytesAdd ==
    ASSUME NEW S, HasBytes(S), NEW x, x \notin S, x.bytes \in Nat
    PROVE  BytesIn(S \cup {x}) = BytesIn(S) + x.bytes /\ HasBytes(S \cup {x})
  <1>1. HasBytes(S \cup {x}) /\ (S \cup {x}) \ {x} = S
    BY FS_AddElement DEF HasBytes
  <1>2. BytesIn(S) = BytesIn(S \cup {x}) - x.bytes
    BY <1>1, BytesRemove
  <1>. QED  BY <1>1, <1>2, BytesType

LEMMA BytesApart ==
    ASSUME NEW S, HasBytes(S), NEW T, T \subseteq S
    PROVE  BytesIn(S) = BytesIn(T) + BytesIn(S \ T) /\ HasBytes(T) /\ HasBytes(S \ T)
  <1>. DEFINE f == [cl \in S |-> cl.bytes]
              g == [cl \in T |-> cl.bytes]
              h == [cl \in S \ T |-> cl.bytes]
  <1>1. HasBytes(T) /\ HasBytes(S \ T)
    BY FS_Subset, FS_Difference DEF HasBytes
  <1>2. IsFiniteSet(Units(g)) /\ IsFiniteSet(Units(h))
    <2>1. g \in [T -> Nat] /\ h \in [S \ T -> Nat]
      BY DEF HasBytes
    <2>. QED  BY <1>1, <2>1, UnitsFinite DEF HasBytes
  <1>3. Units(f) = Units(g) \cup Units(h) /\ Units(g) \cap Units(h) = {}
    <2>1. ASSUME NEW u
          PROVE  /\ u \in Units(f) <=> \E y \in S : u \in {y} \X (1 .. y.bytes)
                 /\ u \in Units(g) <=> \E y \in T : u \in {y} \X (1 .. y.bytes)
                 /\ u \in Units(h) <=> \E y \in S \ T : u \in {y} \X (1 .. y.bytes)
      BY UnitIn
    <2>. HIDE DEF f, g, h
    <2>2. Units(f) = Units(g) \cup Units(h)
      BY <2>1
    <2>3. ASSUME NEW u, u \in Units(g), u \in Units(h)
          PROVE  FALSE
      <3>1. PICK y \in T : u \in {y} \X (1 .. y.bytes)
        BY <2>1, <2>3
      <3>2. PICK z \in S \ T : u \in {z} \X (1 .. z.bytes)
        BY <2>1, <2>3
      <3>3. u[1] = y /\ u[1] = z
        BY <3>1, <3>2
      <3>. QED  BY <3>3
    <2>. QED  BY <2>2, <2>3
  <1>4. Cardinality(Units(f)) = Cardinality(Units(g)) + Cardinality(Units(h))
    BY <1>2, <1>3, DisjointUnion
  <1>. QED  BY <1>1, <1>4 DEF BytesIn, Total

-----------------------------------------------------------------------------
(* Claims and counters *)

(* A queue counts what it claims, and no more than its cap. *)
QueueBudget(c) ==
    /\ queued[c] \in Nat /\ queued[c] = BytesIn(ClaimsOf(c)) /\ queued[c] <= MaxQueuedBytes
    /\ queuedFrames[c] = Cardinality(ClaimsOf(c))

BudgetInv ==
    /\ IsFiniteSet(claims)
    /\ \A c \in Channels : QueueBudget(c)
    /\ BudgetMatches

LEMMA ClaimsHaveBytes ==
    ASSUME TypeOK, BudgetInv, NEW c \in Channels
    PROVE  /\ HasBytes(claims) /\ HasBytes(ClaimsOf(c)) /\ ClaimsOf(c) \subseteq claims
           /\ \A cl \in claims : cl.bytes \in Nat
  <1>1. \A cl \in claims : cl.bytes \in Nat
    BY DEF TypeOK
  <1>2. ClaimsOf(c) \subseteq claims
    BY DEF ClaimsOf
  <1>3. IsFiniteSet(claims) /\ IsFiniteSet(ClaimsOf(c))
    BY <1>2, FS_Subset DEF BudgetInv
  <1>. QED  BY <1>1, <1>2, <1>3 DEF HasBytes

(* A step that changes the claims of one channel, and its counters by as     *)
(* much.                                                                     *)
LEMMA ClaimsChange ==
    ASSUME TypeOK, BudgetInv, NEW c \in Channels, IsFiniteSet(claims'), NEW m \in Nat, NEW n \in Nat,
           queued' = [queued EXCEPT ![c] = m], queuedFrames' = [queuedFrames EXCEPT ![c] = n],
           m = BytesIn(ClaimsOf(c))', m <= MaxQueuedBytes, n = Cardinality(ClaimsOf(c)'),
           \A d \in Channels \ {c} : ClaimsOf(d)' = ClaimsOf(d),
           BytesIn(claims') = BytesIn(claims) - queued[c] + m,
           BytesIn(claims') <= BudgetBytes,
           Cardinality(claims') = Cardinality(claims) - queuedFrames[c] + n,
           Cardinality(claims') <= BudgetFrames
    PROVE  BudgetInv'
  <1>1. queued \in [Channels -> Nat] /\ queuedFrames \in [Channels -> Nat]
    BY DEF BudgetInv, QueueBudget, TypeOK
  <1>2. /\ queued' \in [Channels -> Nat] /\ queued'[c] = m
        /\ queuedFrames' \in [Channels -> Nat] /\ queuedFrames'[c] = n
        /\ \A d \in Channels \ {c} : queued'[d] = queued[d] /\ queuedFrames'[d] = queuedFrames[d]
    BY <1>1
  <1>3. Total(queued') = Total(queued) - queued[c] + m
    <2>1. \A g \in [Channels -> Nat] : (\A d \in Channels \ {c} : g[d] = queued[d])
              => Total(g) = Total(queued) - queued[c] + g[c]
      BY <1>1, ChannelsAssumption, TotalAt
    <2>. QED  BY <1>2, <2>1
  <1>4. Total(queuedFrames') = Total(queuedFrames) - queuedFrames[c] + n
    <2>1. \A g \in [Channels -> Nat] : (\A d \in Channels \ {c} : g[d] = queuedFrames[d])
              => Total(g) = Total(queuedFrames) - queuedFrames[c] + g[c]
      BY <1>1, ChannelsAssumption, TotalAt
    <2>. QED  BY <1>2, <2>1
  <1>5. BudgetMatches'
    <2>1. /\ BytesIn(claims) = Total(queued) /\ Cardinality(claims) = Total(queuedFrames)
      BY DEF BudgetInv, BudgetMatches, ClaimedBytes
    <2>2. Total(queued)' = BytesIn(claims)' /\ Total(queuedFrames)' = Cardinality(claims)'
      BY <1>3, <1>4, <2>1
    <2>. QED  BY <2>2 DEF BudgetMatches, ClaimedBytes
  <1>6. ASSUME NEW d \in Channels
        PROVE  QueueBudget(d)'
    <2>1. CASE d = c
      BY <1>2, <2>1 DEF QueueBudget
    <2>2. CASE d # c
      <3>1. QueueBudget(d) /\ ClaimsOf(d)' = ClaimsOf(d) /\ queued'[d] = queued[d]
            /\ queuedFrames'[d] = queuedFrames[d]
        BY <1>2, <2>2 DEF BudgetInv
      <3>. QED  BY <3>1 DEF QueueBudget
    <2>. QED  BY <2>1, <2>2
  <1>. QED  BY <1>5, <1>6 DEF BudgetInv

(* No claim is held yet on a frame that is only now accepted. *)
LEMMA ClaimIsNew ==
    ASSUME IInv, NEW c \in Channels, NEW bytes
    PROVE  Claim(c, last[c] + 1, bytes) \notin claims
  <1>1. SUFFICES ASSUME Claim(c, last[c] + 1, bytes) \in claims
                 PROVE  FALSE
    OBVIOUS
  <1>2. Claim(c, last[c] + 1, bytes) \in ClaimsFor(c, Frames(c))
    BY <1>1, ClaimOfChannel DEF ClaimsOf, IInv, ChannelInv, CountInv
  <1>3. PICK f \in Frames(c) : f.id = last[c] + 1
    BY <1>2 DEF ClaimsFor, Claim
  <1>4. Ordered(slots[c], head[c], last[c]) /\ f \in FramesIn(slots[c]) /\ last[c] \in Nat
    BY <1>3, FramesAre DEF IInv, TypeOK, ChannelInv, ArrayInv
  <1>5. slots[c] \in Seq(Slot)
    BY <1>4 DEF Ordered
  <1>6. PICK k \in 1 .. Len(slots[c]) : f = slots[c][k]
    BY <1>4, <1>5, FrameWhere
  <1>7. f.id <= last[c]
    BY <1>4, <1>6 DEF Ordered
  <1>. QED  BY <1>3, <1>4, <1>7

LEMMA ParkBudget ==
    ASSUME IInv, BudgetInv, NEW c \in Channels, NEW bytes \in Nat, Fits(c, bytes), Park(c, bytes)
    PROVE  BudgetInv'
  <1>. DEFINE x == Claim(c, last[c] + 1, bytes)
  <1>1. /\ TypeOK /\ QueueBudget(c) /\ HasBytes(claims) /\ HasBytes(ClaimsOf(c))
        /\ ClaimsOf(c) \subseteq claims
    BY ClaimsHaveBytes DEF IInv, BudgetInv
  <1>2. x \notin claims /\ x \notin ClaimsOf(c) /\ x.chan = c /\ x.bytes = bytes
    BY <1>1, ClaimIsNew, ClaimOfChannel DEF Claim
  <1>3. /\ claims' = claims \cup {x}
        /\ queued' = [queued EXCEPT ![c] = queued[c] + bytes]
        /\ queuedFrames' = [queuedFrames EXCEPT ![c] = queuedFrames[c] + 1]
    BY DEF Park
  <1>. HIDE DEF x
  <1>4. /\ ClaimsOf(c)' = ClaimsOf(c) \cup {x}
        /\ \A d \in Channels \ {c} : ClaimsOf(d)' = ClaimsOf(d)
    BY <1>2, <1>3 DEF ClaimsOf
  <1>5. /\ BytesIn(claims') = BytesIn(claims) + bytes /\ BytesIn(claims) \in Nat
        /\ BytesIn(ClaimsOf(c)') = BytesIn(ClaimsOf(c)) + bytes /\ BytesIn(ClaimsOf(c)) \in Nat
    BY <1>1, <1>2, <1>3, <1>4, BytesAdd, BytesType
  <1>6. /\ IsFiniteSet(claims')
        /\ Cardinality(claims') = Cardinality(claims) + 1 /\ Cardinality(claims) \in Nat
        /\ Cardinality(ClaimsOf(c)') = Cardinality(ClaimsOf(c)) + 1 /\ Cardinality(ClaimsOf(c)) \in Nat
    BY <1>1, <1>2, <1>3, <1>4, FS_AddElement, FS_CardinalityType DEF HasBytes
  <1>7. /\ Cardinality(claims) < BudgetFrames /\ BytesIn(claims) + bytes <= BudgetBytes
        /\ queued[c] + bytes <= MaxQueuedBytes
    BY DEF Fits, Granted, ClaimedBytes
  <1>8. /\ queued[c] = BytesIn(ClaimsOf(c)) /\ queuedFrames[c] = Cardinality(ClaimsOf(c))
        /\ queued[c] \in Nat /\ queuedFrames[c] \in Nat
    BY <1>1, <1>6 DEF QueueBudget
  <1>9. queued[c] + bytes \in Nat /\ queuedFrames[c] + 1 \in Nat
    BY <1>8
  <1>10. /\ queued[c] + bytes = BytesIn(ClaimsOf(c))' /\ queuedFrames[c] + 1 = Cardinality(ClaimsOf(c)')
         /\ BytesIn(claims') = BytesIn(claims) - queued[c] + (queued[c] + bytes)
         /\ Cardinality(claims') = Cardinality(claims) - queuedFrames[c] + (queuedFrames[c] + 1)
         /\ BytesIn(claims') <= BudgetBytes /\ Cardinality(claims') <= BudgetFrames
    BY <1>5, <1>6, <1>7, <1>8, BudgetAssumption
  <1>. QED  BY <1>1, <1>3, <1>4, <1>6, <1>7, <1>9, <1>10, ClaimsChange

LEMMA ReleaseBudget ==
    ASSUME IInv, BudgetInv, NEW c \in Channels, NEW k \in FrameSlots(c), Release(c, k)
    PROVE  BudgetInv'
  <1>. DEFINE f == slots[c][k]
              x == Claim(c, f.id, f.bytes)
  <1>1. /\ TypeOK /\ QueueBudget(c) /\ HasBytes(claims) /\ HasBytes(ClaimsOf(c)) /\ BudgetMatches
        /\ ClaimsOf(c) \subseteq claims
    BY ClaimsHaveBytes DEF IInv, BudgetInv
  <1>2. x \in ClaimsOf(c) /\ x \in claims /\ x.bytes = f.bytes /\ f.bytes \in Nat /\ x.chan = c
    <2>1. f \in Frames(c) /\ ClaimsOf(c) = ClaimsFor(c, Frames(c))
      BY DEF FrameSlots, Frames, IInv, ChannelInv, CountInv
    <2>2. x \in ClaimsOf(c)
      BY <2>1 DEF ClaimsFor
    <2>3. f.bytes \in Nat
      BY SlotsOfFrames, SlotTypes
    <2>. QED  BY <1>1, <2>2, <2>3 DEF Claim
  <1>3. /\ claims' = claims \ {x}
        /\ queued' = [queued EXCEPT ![c] = queued[c] - f.bytes]
        /\ queuedFrames' = [queuedFrames EXCEPT ![c] = queuedFrames[c] - 1]
    BY DEF Release
  <1>. HIDE DEF x, f
  <1>4. /\ ClaimsOf(c)' = ClaimsOf(c) \ {x}
        /\ \A d \in Channels \ {c} : ClaimsOf(d)' = ClaimsOf(d)
    BY <1>2, <1>3 DEF ClaimsOf
  <1>5. /\ BytesIn(claims') = BytesIn(claims) - f.bytes /\ HasBytes(claims')
        /\ BytesIn(ClaimsOf(c)') = BytesIn(ClaimsOf(c)) - f.bytes /\ HasBytes(ClaimsOf(c)')
    BY <1>1, <1>2, <1>3, <1>4, BytesRemove
  <1>6. /\ BytesIn(claims) \in Nat /\ BytesIn(ClaimsOf(c)') \in Nat /\ BytesIn(claims') \in Nat
    BY <1>1, <1>5, BytesType
  <1>7. /\ Cardinality(claims') = Cardinality(claims) - 1 /\ Cardinality(claims) \in Nat
        /\ Cardinality(ClaimsOf(c)') = Cardinality(ClaimsOf(c)) - 1 /\ Cardinality(ClaimsOf(c)') \in Nat
    BY <1>1, <1>2, <1>3, <1>4, <1>5, FS_RemoveElement, FS_CardinalityType DEF HasBytes
  <1>8. /\ queued[c] = BytesIn(ClaimsOf(c)) /\ queuedFrames[c] = Cardinality(ClaimsOf(c))
        /\ queued[c] \in Nat /\ queued[c] <= MaxQueuedBytes /\ queuedFrames[c] \in Nat
        /\ BytesIn(claims) <= BudgetBytes /\ Cardinality(claims) <= BudgetFrames
    BY <1>1 DEF QueueBudget, BudgetMatches, ClaimedBytes, TypeOK
  <1>9. /\ queued[c] - f.bytes \in Nat /\ queuedFrames[c] - 1 \in Nat
        /\ queued[c] - f.bytes = BytesIn(ClaimsOf(c))' /\ queuedFrames[c] - 1 = Cardinality(ClaimsOf(c)')
        /\ queued[c] - f.bytes <= MaxQueuedBytes
    BY <1>2, <1>5, <1>6, <1>7, <1>8, CapsAssumption
  <1>10. /\ BytesIn(claims') = BytesIn(claims) - queued[c] + (queued[c] - f.bytes)
         /\ Cardinality(claims') = Cardinality(claims) - queuedFrames[c] + (queuedFrames[c] - 1)
         /\ BytesIn(claims') <= BudgetBytes /\ Cardinality(claims') <= BudgetFrames
    BY <1>2, <1>5, <1>6, <1>7, <1>8, BudgetAssumption
  <1>11. IsFiniteSet(claims')
    BY <1>5 DEF HasBytes
  <1>. QED  BY <1>1, <1>3, <1>4, <1>9, <1>10, <1>11, ClaimsChange DEF BudgetInv

LEMMA DropBudget ==
    ASSUME IInv, BudgetInv, NEW c \in Channels, DropBacklog(c)
    PROVE  BudgetInv'
  <1>1. /\ TypeOK /\ QueueBudget(c) /\ HasBytes(claims) /\ HasBytes(ClaimsOf(c)) /\ BudgetMatches
        /\ ClaimsOf(c) \subseteq claims
    BY ClaimsHaveBytes DEF IInv, BudgetInv
  <1>2. /\ claims' = claims \ ClaimsOf(c)
        /\ queued' = [queued EXCEPT ![c] = 0] /\ queuedFrames' = [queuedFrames EXCEPT ![c] = 0]
    BY DEF DropBacklog
  <1>3. ClaimsOf(c)' = {} /\ \A d \in Channels \ {c} : ClaimsOf(d)' = ClaimsOf(d)
    BY <1>2 DEF ClaimsOf
  <1>4. /\ BytesIn(claims) = BytesIn(ClaimsOf(c)) + BytesIn(claims') /\ HasBytes(claims')
    BY <1>1, <1>2, BytesApart
  <1>5. BytesIn(ClaimsOf(c)) \in Nat /\ BytesIn(claims') \in Nat
    BY <1>1, <1>4, BytesType
  <1>6. /\ Cardinality(claims') = Cardinality(claims) - Cardinality(ClaimsOf(c))
        /\ Cardinality(claims) \in Nat /\ Cardinality(claims') \in Nat /\ Cardinality(ClaimsOf(c)) \in Nat
    <2>1. claims \cap ClaimsOf(c) = ClaimsOf(c)
      BY <1>1
    <2>2. IsFiniteSet(claims) /\ IsFiniteSet(ClaimsOf(c))
      BY <1>1 DEF HasBytes
    <2>3. /\ IsFiniteSet(claims \ ClaimsOf(c))
          /\ Cardinality(claims \ ClaimsOf(c)) = Cardinality(claims) - Cardinality(claims \cap ClaimsOf(c))
      BY <2>2, FS_Difference
    <2>4. /\ Cardinality(claims) \in Nat /\ Cardinality(ClaimsOf(c)) \in Nat
          /\ Cardinality(claims \ ClaimsOf(c)) \in Nat
      BY <2>2, <2>3, FS_CardinalityType
    <2>. QED  BY <1>2, <2>1, <2>3, <2>4
  <1>7. BytesIn(ClaimsOf(c)') = 0 /\ Cardinality(ClaimsOf(c)') = 0
    <2>1. Total([cl \in {} |-> cl.bytes]) = 0
      BY TotalOfNothing
    <2>. QED  BY <1>3, <2>1, FS_EmptySet DEF BytesIn
  <1>8. /\ queued[c] = BytesIn(ClaimsOf(c)) /\ queuedFrames[c] = Cardinality(ClaimsOf(c))
        /\ BytesIn(claims) <= BudgetBytes /\ Cardinality(claims) <= BudgetFrames
    BY <1>1 DEF QueueBudget, BudgetMatches, ClaimedBytes
  <1>9. /\ BytesIn(claims') = BytesIn(claims) - queued[c] + 0
        /\ Cardinality(claims') = Cardinality(claims) - queuedFrames[c] + 0
        /\ BytesIn(claims') <= BudgetBytes /\ Cardinality(claims') <= BudgetFrames
    BY <1>4, <1>5, <1>6, <1>8, BudgetAssumption
  <1>10. /\ 0 \in Nat /\ 0 <= MaxQueuedBytes /\ IsFiniteSet(claims')
         /\ 0 = BytesIn(ClaimsOf(c))' /\ 0 = Cardinality(ClaimsOf(c)')
    BY <1>4, <1>7, CapsAssumption DEF HasBytes
  <1>. QED  BY <1>1, <1>2, <1>3, <1>7, <1>9, <1>10, ClaimsChange

LEMMA KeptBudget ==
    ASSUME BudgetInv, UNCHANGED <<queued, queuedFrames, claims>>
    PROVE  BudgetInv'
  <1>1. \A c : ClaimsOf(c)' = ClaimsOf(c)
    BY DEF ClaimsOf
  <1>. QED  BY <1>1 DEF BudgetInv, QueueBudget, BudgetMatches, ClaimedBytes

-----------------------------------------------------------------------------
(* What the sockets hold *)

LEMMA BufferGrows ==
    ASSUME TypeOK, NEW c \in Channels, NEW bytes \in Nat, CanSend(bytes),
           buffered' = [buffered EXCEPT ![c] = buffered[c] + bytes]
    PROVE  BufferBounded'
  <1>1. buffered \in [Channels -> Nat] /\ buffered[c] \in Nat
    BY DEF TypeOK
  <1>2. buffered' \in [Channels -> Nat] /\ buffered'[c] = buffered[c] + bytes
        /\ \A d \in Channels \ {c} : buffered'[d] = buffered[d]
    BY <1>1
  <1>3. Total(buffered') = Total(buffered) + bytes
    <2>1. \A g \in [Channels -> Nat] : (\A d \in Channels \ {c} : g[d] = buffered[d])
              => Total(g) = Total(buffered) - buffered[c] + g[c] /\ Total(buffered) \in Nat
      BY <1>1, ChannelsAssumption, TotalAt
    <2>2. Total(buffered') = Total(buffered) - buffered[c] + (buffered[c] + bytes) /\ Total(buffered) \in Nat
      BY <1>2, <2>1
    <2>. QED  BY <1>1, <2>2
  <1>4. Total(buffered) + bytes <= MaxBuffered
    BY DEF CanSend, BufferedBytes
  <1>5. BufferedBytes' <= MaxBuffered
    BY <1>3, <1>4 DEF BufferedBytes
  <1>. QED  BY <1>5 DEF BufferBounded

LEMMA BufferShrinks ==
    ASSUME TypeOK, BufferBounded, NEW c \in Channels, NEW left \in Nat, left <= buffered[c],
           buffered' = [buffered EXCEPT ![c] = left]
    PROVE  BufferBounded'
  <1>1. buffered \in [Channels -> Nat] /\ buffered[c] \in Nat
    BY DEF TypeOK
  <1>2. buffered' \in [Channels -> Nat] /\ buffered'[c] = left
        /\ \A d \in Channels \ {c} : buffered'[d] = buffered[d]
    BY <1>1
  <1>3. Total(buffered') <= Total(buffered) /\ Total(buffered') \in Nat /\ Total(buffered) \in Nat
    <2>1. \A g \in [Channels -> Nat] : (\A d \in Channels \ {c} : g[d] = buffered[d])
              => /\ Total(g) = Total(buffered) - buffered[c] + g[c]
                 /\ Total(buffered) \in Nat /\ Total(g) \in Nat
      BY <1>1, ChannelsAssumption, TotalAt
    <2>2. /\ Total(buffered') = Total(buffered) - buffered[c] + left
          /\ Total(buffered) \in Nat /\ Total(buffered') \in Nat
      BY <1>2, <2>1
    <2>. QED  BY <1>1, <2>2
  <1>4. Total(buffered) <= MaxBuffered
    BY DEF BufferBounded, BufferedBytes
  <1>5. BufferedBytes' <= MaxBuffered
    BY <1>3, <1>4, CapsAssumption DEF BufferedBytes
  <1>. QED  BY <1>5 DEF BufferBounded

LEMMA BufferKept ==
    ASSUME BufferBounded, buffered' = buffered
    PROVE  BufferBounded'
  BY DEF BufferBounded, BufferedBytes

-----------------------------------------------------------------------------
(* Every step keeps the sums *)

SumsInv == BudgetInv /\ BufferBounded

LEMMA DestroySums ==
    ASSUME IInv, SumsInv, NEW c \in Channels, Destroy(c)
    PROVE  SumsInv'
  <1>1. TypeOK /\ DropBacklog(c) /\ buffered' = [buffered EXCEPT ![c] = 0]
    BY DEF IInv, Destroy
  <1>2. 0 \in Nat /\ 0 <= buffered[c]
    BY <1>1 DEF TypeOK
  <1>. QED  BY <1>1, <1>2, DropBudget, BufferShrinks DEF SumsInv

LEMMA EnqueueSums ==
    ASSUME IInv, SumsInv, NEW c \in Channels, NEW bytes \in Nat, Enqueue(c, bytes)
    PROVE  SumsInv'
  <1>1. \/ SendNow(c, bytes) /\ CanSend(bytes)
        \/ Park(c, bytes) /\ Fits(c, bytes)
        \/ Overflow(c)
    BY DEF Enqueue, FastPath, Clear
  <1>2. CASE SendNow(c, bytes) /\ CanSend(bytes)
    <2>1. /\ UNCHANGED <<queued, queuedFrames, claims>>
          /\ buffered' = [buffered EXCEPT ![c] = buffered[c] + bytes]
      BY <1>2 DEF SendNow, Put, queueVars
    <2>. QED  BY <1>2, <2>1, KeptBudget, BufferGrows DEF SumsInv, IInv
  <1>3. CASE Park(c, bytes) /\ Fits(c, bytes)
    BY <1>3, ParkBudget, BufferKept DEF SumsInv, Park
  <1>4. CASE Overflow(c)
    BY <1>4, DestroySums DEF Overflow
  <1>. QED  BY <1>1, <1>2, <1>3, <1>4

LEMMA SendDirectSums ==
    ASSUME IInv, SumsInv, NEW c \in Channels, NEW bytes \in Nat, SendDirect(c, bytes)
    PROVE  SumsInv'
  <1>1. CASE CanSend(bytes)
    <2>1. /\ UNCHANGED <<queued, queuedFrames, claims>>
          /\ buffered' = [buffered EXCEPT ![c] = buffered[c] + bytes]
      BY <1>1 DEF SendDirect, queueVars
    <2>. QED  BY <1>1, <2>1, KeptBudget, BufferGrows DEF SumsInv, IInv
  <1>2. CASE ~CanSend(bytes)
    BY <1>2, DestroySums DEF SendDirect, Overflow
  <1>. QED  BY <1>1, <1>2

LEMMA DrainOneSums ==
    ASSUME IInv, SumsInv, NEW c \in Channels, DrainOne(c)
    PROVE  SumsInv'
  <1>1. CASE DrainSends(c)
    <2>1. /\ Release(c, head[c] + 1) /\ CanSend(HeadSlot(c).bytes) /\ queuedFrames[c] > 0 /\ draining = c
          /\ buffered' = [buffered EXCEPT ![c] = buffered[c] + HeadSlot(c).bytes]
      BY <1>1 DEF DrainSends, Sendable, Clear, Put
    <2>2. head[c] + 1 \in FrameSlots(c) /\ HeadSlot(c).bytes \in Nat
      BY <2>1, DrainTakesHead
    <2>. QED  BY <2>1, <2>2, ReleaseBudget, BufferGrows DEF SumsInv, IInv
  <1>2. CASE Overflow(c)
    BY <1>2, DestroySums DEF Overflow
  <1>. QED  BY <1>1, <1>2, DrainOneCases

LEMMA InitSums == Init => SumsInv
  <1>. SUFFICES ASSUME Init PROVE SumsInv
    OBVIOUS
  <1>1. /\ claims = {} /\ queued = [c \in Channels |-> 0] /\ queuedFrames = [c \in Channels |-> 0]
        /\ buffered = [c \in Channels |-> 0]
    BY DEF Init
  <1>2. IsFiniteSet({}) /\ Cardinality({}) = 0 /\ BytesIn({}) = 0
    <2>1. Total([cl \in {} |-> cl.bytes]) = 0
      BY TotalOfNothing
    <2>. QED  BY <2>1, FS_EmptySet DEF BytesIn
  <1>3. Total(queued) = 0 /\ Total(queuedFrames) = 0 /\ Total(buffered) = 0
    <2>1. Total([c \in Channels |-> 0]) = 0
      BY TotalOfNothing
    <2>. QED  BY <1>1, <2>1
  <1>4. \A c \in Channels : QueueBudget(c)
    <2>1. \A c : ClaimsOf(c) = {}
      BY <1>1 DEF ClaimsOf
    <2>. QED  BY <1>1, <1>2, <2>1, CapsAssumption DEF QueueBudget
  <1>5. BudgetMatches
    BY <1>1, <1>2, <1>3, BudgetAssumption DEF BudgetMatches, ClaimedBytes
  <1>6. BufferBounded
    BY <1>3, CapsAssumption DEF BufferBounded, BufferedBytes
  <1>. QED  BY <1>1, <1>2, <1>4, <1>5, <1>6 DEF SumsInv, BudgetInv

LEMMA StepSums == IInv /\ SumsInv /\ [Next]_vars => SumsInv'
  <1>. SUFFICES ASSUME IInv, SumsInv, [Next]_vars
                PROVE  SumsInv'
    OBVIOUS
  <1>0. ASSUME UNCHANGED <<queued, queuedFrames, claims, buffered>>
        PROVE  SumsInv'
    BY <1>0, KeptBudget, BufferKept DEF SumsInv
  <1>1. CASE UNCHANGED vars
    BY <1>0, <1>1 DEF vars, queueVars
  <1>2. CASE Next
    <2>0. PICK c \in Channels :
              \/ \E bytes \in Nat : Enqueue(c, bytes) \/ SendDirect(c, bytes)
              \/ \E k \in FrameSlots(c) : Cancel(c, k)
              \/ TimerFires(c) \/ DrainOne(c) \/ DrainEnds(c)
              \/ \E left \in Nat : WireTakes(c, left)
              \/ SocketCloses(c) \/ Dispose(c)
      BY <1>2, StepCases
    <2>1. ASSUME NEW bytes \in Nat, Enqueue(c, bytes) \/ SendDirect(c, bytes)
          PROVE  SumsInv'
      BY <2>1, EnqueueSums, SendDirectSums
    <2>2. ASSUME NEW k \in FrameSlots(c), Cancel(c, k)
          PROVE  SumsInv'
      BY <2>2, ReleaseBudget, BufferKept DEF Cancel, SumsInv
    <2>3. CASE TimerFires(c)
      <3>1. UNCHANGED buffered /\ (UNCHANGED <<queued, queuedFrames, claims>> \/ DropBacklog(c))
        BY <2>3 DEF TimerFires
      <3>. QED  BY <3>1, KeptBudget, DropBudget, BufferKept DEF SumsInv
    <2>4. CASE DrainOne(c)
      BY <2>4, DrainOneSums
    <2>5. CASE DrainEnds(c) \/ SocketCloses(c)
      BY <1>0, <2>5 DEF DrainEnds, SocketCloses, queueVars
    <2>6. ASSUME NEW left \in Nat, WireTakes(c, left)
          PROVE  SumsInv'
      <3>1. /\ UNCHANGED <<queued, queuedFrames, claims>>
            /\ left < buffered[c] /\ buffered' = [buffered EXCEPT ![c] = left]
        BY <2>6 DEF WireTakes, queueVars
      <3>2. left <= buffered[c]
        BY <3>1 DEF IInv, TypeOK
      <3>. QED  BY <3>1, <3>2, KeptBudget, BufferShrinks DEF SumsInv, IInv
    <2>7. CASE Dispose(c)
      BY <2>7, DestroySums DEF Dispose
    <2>. QED  BY <2>0, <2>1, <2>2, <2>3, <2>4, <2>5, <2>6, <2>7
  <1>. QED  BY <1>1, <1>2

LEMMA SumsHold == Spec => []SumsInv
  <1>. QED  BY InitSums, StepSums, QueueInvariant, PTL DEF Spec

(* What a queue counts is what it claims of the memory budget, and stays     *)
(* under its hard cap, however its frames were parked, cancelled, sent and   *)
(* dropped.                                                                  *)
THEOREM QueueBytesMatch == Spec => []BytesMatch
  <1>1. SumsInv => BytesMatch
    BY DEF SumsInv, BudgetInv, QueueBudget, BytesMatch
  <1>. QED  BY <1>1, SumsHold, PTL

(* The budget counts what all the queues together count, of any number of    *)
(* channels, and its caps are kept.                                          *)
THEOREM QueueBudgetMatches == Spec => []BudgetMatches
  <1>1. SumsInv => BudgetMatches
    BY DEF SumsInv, BudgetInv
  <1>. QED  BY <1>1, SumsHold, PTL

(* What all the sockets hold stays within what the process may buffer: the   *)
(* admission counts every socket, and the frame itself.                      *)
THEOREM QueueBufferBounded == Spec => []BufferBounded
  <1>1. SumsInv => BufferBounded
    BY DEF SumsInv
  <1>. QED  BY <1>1, SumsHold, PTL
=============================================================================
