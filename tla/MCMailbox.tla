----------------------------- MODULE MCMailbox -----------------------------
(* Mailbox on small sets, for TLC. *)
EXTENDS Mailbox

CONSTANTS c, w, k1, k2

TwoHandles == {c, w}
CoordinatorOnly == {c}
OneCall == {k1}
TwoCalls == {k1, k2}
LifecycleTypes == {"worker_done", "heartbeat"}
AllButGates == {MessageTypes \ {"decision_gate"}}
=============================================================================
