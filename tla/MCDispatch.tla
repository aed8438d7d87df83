----------------------------- MODULE MCDispatch -----------------------------
(* Dispatch on small sets, for TLC. *)
EXTENDS Dispatch, TLC

CONSTANTS t1, t2, p1

MCTasks == {t1, t2}
MCPanes == {p1}
MCOperatorStatuses == {"ready", "completed"}
MCSymmetry == Permutations(MCTasks) \cup Permutations(MCPanes)
=============================================================================
