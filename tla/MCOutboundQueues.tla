-------------------------- MODULE MCOutboundQueues --------------------------
(* OutboundQueues on small sets, for TLC. *)
EXTENDS OutboundQueues

CONSTANTS a, b

TwoChannels == {a, b}
(* The second channel is there for its claims on memory. *)
ThreeAndOne == [c \in {a, b} |-> IF c = a THEN 3 ELSE 1]
=============================================================================
