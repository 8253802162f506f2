-------------------------- MODULE OrderedDelivery --------------------------
(***************************************************************************)
(* What the incoming half of the data channel promises: the agent's        *)
(* messages are consumed one by one in sequence order, each at most once,  *)
(* and from the moment the session is ready no data message is passed over *)
(* without being handed to it.                                             *)
(***************************************************************************)
EXTENDS Naturals, Sequences

VARIABLES
    data,   \* the sequence numbers that carry session data; never changes
    next,   \* the next sequence number to consume
    ready,  \* the session accepts data
    out     \* the sequence numbers handed to the session, in order

vars == <<data, next, ready, out>>

Init ==
    /\ data \subseteq Nat
    /\ next = 0
    /\ ready = FALSE
    /\ out = <<>>

BecomeReady ==
    /\ ready' = TRUE
    /\ UNCHANGED <<data, next, out>>

Deliver ==
    /\ next \in data
    /\ out' = Append(out, next)
    /\ next' = next + 1
    /\ UNCHANGED <<data, ready>>

\* Control messages are consumed without delivery; data only before readiness.
Skip ==
    /\ next \in data => ~ready
    /\ next' = next + 1
    /\ UNCHANGED <<data, ready, out>>

Next == BecomeReady \/ Deliver \/ Skip

Spec == Init /\ [][Next]_vars
=============================================================================
