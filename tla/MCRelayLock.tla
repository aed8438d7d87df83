---------------------------- MODULE MCRelayLock ----------------------------
(* RelayLock on small sets, for TLC. *)
EXTENDS RelayLock

CONSTANTS a, b, g

TwoDeployers == {a, b}
OneCollector == {g}
CollectsTwice == [c \in Clients |-> IF c \in Collectors THEN 2 ELSE 1]
=============================================================================
