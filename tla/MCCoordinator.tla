--------------------------- MODULE MCCoordinator ---------------------------
(* Coordinator on small sets, for TLC. *)
EXTENDS Coordinator, TLC

CONSTANTS t1, t2, p1, p2

OneTask == {t1}
TwoTasks == {t1, t2}
OnePane == {p1}
TwoPanes == {p1, p2}
NoStatuses == {}
SomeStatuses == {"completed"}
MCSymmetry == Permutations(TwoTasks) \cup Permutations(TwoPanes)
=============================================================================
