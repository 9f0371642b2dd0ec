--------------------------- MODULE OrderedSender ---------------------------
(***************************************************************************)
(* What one client connection promises to the code that pushes messages    *)
(* into it: the messages it has accepted reach the peer one at a time, in  *)
(* the order of acceptance, none twice and none skipped, until the         *)
(* connection is shut.  Shutting loses what was not delivered yet, and     *)
(* nothing else: nothing is accepted or delivered afterwards.              *)
(***************************************************************************)
EXTENDS Naturals, Sequences

CONSTANTS
    Message         \* what can be sent

VARIABLES
    accepted,       \* every message accepted, in order
    delivered,      \* every message handed to the peer, in order
    open            \* the connection has not been shut

vars == <<accepted, delivered, open>>

Init ==
    /\ accepted = <<>>
    /\ delivered = <<>>
    /\ open = TRUE

Accept(m) ==
    /\ open
    /\ accepted' = Append(accepted, m)
    /\ UNCHANGED <<delivered, open>>

Deliver ==
    /\ open
    /\ Len(delivered) < Len(accepted)
    /\ delivered' = Append(delivered, accepted[Len(delivered) + 1])
    /\ UNCHANGED <<accepted, open>>

Shut ==
    /\ open
    /\ open' = FALSE
    /\ UNCHANGED <<accepted, delivered>>

Next ==
    \/ \E m \in Message : Accept(m)
    \/ Deliver
    \/ Shut

Spec == Init /\ [][Next]_vars
=============================================================================
