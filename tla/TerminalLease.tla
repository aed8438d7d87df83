--------------------------- MODULE TerminalLease ---------------------------
(***************************************************************************)
(* What the dispatch table promises about worker terminals, with nothing   *)
(* of how it is stored: a dispatch is a lease of one terminal, known by    *)
(* the handle it was addressed with and, when the runtime can name it, by  *)
(* its pane.  A lease is granted at most once, two leases held at the same *)
(* time never share a handle or a pane, and a lease given back stays given *)
(* back.  Module Dispatch implements this specification.                   *)
(***************************************************************************)
CONSTANTS
    Leases,     \* identities a lease may be granted under
    Handles,    \* terminal handles
    Panes,      \* panes behind the handles
    NoPane      \* recorded when the pane behind a handle is not known

VARIABLES
    held,       \* lease -> terminal, for the leases held now
    spent       \* the leases ever granted

vars == <<held, spent>>

Terminal == [handle : Handles, pane : Panes \cup {NoPane}]

(* Two terminals are the same worker when either identity agrees. *)
SameWorker(a, b) ==
    \/ a.handle = b.handle
    \/ a.pane # NoPane /\ a.pane = b.pane

Init ==
    /\ held = [l \in {} |-> {}]
    /\ spent = {}

(* A lease is fresh and its terminal is the terminal of no lease held. *)
Grant(l, w) ==
    /\ l \notin spent
    /\ \A k \in DOMAIN held : ~SameWorker(held[k], w)
    /\ held' = [k \in DOMAIN held \cup {l} |-> IF k = l THEN w ELSE held[k]]
    /\ spent' = spent \cup {l}

(* Any number of leases may be given back at once: one when a worker       *)
(* reports, fails or exits, all of them when the tables are cleared.       *)
Release(kept) ==
    /\ kept \subseteq DOMAIN held
    /\ held' = [k \in kept |-> held[k]]
    /\ UNCHANGED spent

Next ==
    \/ \E l \in Leases, w \in Terminal : Grant(l, w)
    \/ \E kept \in SUBSET DOMAIN held : Release(kept)

Spec == Init /\ [][Next]_vars
=============================================================================
