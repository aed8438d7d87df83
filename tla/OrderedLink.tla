---------------------------- MODULE OrderedLink ----------------------------
(***************************************************************************)
(* What the outbound queue promises to those who write to a socket: frames *)
(* leave in the order in which they were accepted, none overtakes another, *)
(* and as long as the link is up none is dropped that its owner did not    *)
(* cancel (the header of ws-outbound-backpressure-queue.ts).  A link that  *)
(* went down never comes up again: a client reconnects with a new one.     *)
(***************************************************************************)
EXTENDS Naturals, Sequences

CONSTANT Links

VARIABLES
    last,       \* frames accepted so far; they are numbered in that order
    pending,    \* accepted and neither sent nor cancelled
    sent,       \* handed to the wire, in order
    up          \* the link accepts frames

lvars == <<last, pending, sent, up>>

Accept(c) ==
    /\ up[c]
    /\ last' = [last EXCEPT ![c] = @ + 1]
    /\ pending' = [pending EXCEPT ![c] = @ \cup {last[c] + 1}]
    /\ UNCHANGED <<sent, up>>

AcceptAndSend(c) ==
    /\ up[c]
    /\ pending[c] = {}
    /\ last' = [last EXCEPT ![c] = @ + 1]
    /\ sent' = [sent EXCEPT ![c] = Append(@, last[c] + 1)]
    /\ UNCHANGED <<pending, up>>

Deliver(c) ==
    /\ up[c]
    /\ \E i \in pending[c] :
        /\ \A j \in pending[c] : i <= j
        /\ pending' = [pending EXCEPT ![c] = @ \ {i}]
        /\ sent' = [sent EXCEPT ![c] = Append(@, i)]
    /\ UNCHANGED <<last, up>>

Cancel(c) ==
    /\ \E i \in pending[c] : pending' = [pending EXCEPT ![c] = @ \ {i}]
    /\ UNCHANGED <<last, sent, up>>

(* The link fails, with or without its backlog, or a failed one drops it. *)
Fail(c) ==
    /\ up' = [up EXCEPT ![c] = FALSE]
    /\ pending' \in {pending, [pending EXCEPT ![c] = {}]}
    /\ UNCHANGED <<last, sent>>

LinkInit ==
    /\ last = [c \in Links |-> 0]
    /\ pending = [c \in Links |-> {}]
    /\ sent = [c \in Links |-> <<>>]
    /\ up = [c \in Links |-> TRUE]

LinkNext ==
    \E c \in Links : Accept(c) \/ AcceptAndSend(c) \/ Deliver(c) \/ Cancel(c) \/ Fail(c)

LinkSpec == LinkInit /\ [][LinkNext]_lvars
=============================================================================
