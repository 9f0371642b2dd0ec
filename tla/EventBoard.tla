----------------------------- MODULE EventBoard -----------------------------
(***************************************************************************)
(* What the event side of ClientManager promises: publishing puts an event *)
(* on the pending list of every connection registered for its type, and of *)
(* no other; dispatching prints every pending event; both are              *)
(* instantaneous, so no connection can appear or end in their middle.      *)
(* Event number i is the i-th one published, of type published[i].         *)
(***************************************************************************)
EXTENDS Naturals, Sequences

CONSTANTS
    Key,            \* where connections are registered
    Type,           \* event types
    None            \* no connection under a key

VARIABLES
    type,           \* the type of the connection registered under each key
    pending,        \* the events waiting at it
    printed,        \* the events printed for each key
    published       \* the types of the events published so far

vars == <<type, pending, printed, published>>

Init ==
    /\ type = [k \in Key |-> None]
    /\ pending = [k \in Key |-> <<>>]
    /\ printed = [k \in Key |-> <<>>]
    /\ published = <<>>

\* A new connection under k: it has no events yet.
Register(k, t) ==
    /\ type' = [type EXCEPT ![k] = t]
    /\ pending' = [pending EXCEPT ![k] = <<>>]
    /\ UNCHANGED <<printed, published>>

Remove(k) ==
    /\ type' = [type EXCEPT ![k] = None]
    /\ pending' = [pending EXCEPT ![k] = <<>>]
    /\ UNCHANGED <<printed, published>>

Publish(t) ==
    /\ published' = Append(published, t)
    /\ pending' = [k \in Key |-> IF type[k] = t
                                 THEN Append(pending[k], Len(published) + 1)
                                 ELSE pending[k]]
    /\ UNCHANGED <<type, printed>>

Dispatch ==
    /\ printed' = [k \in Key |-> printed[k] \o pending[k]]
    /\ pending' = [k \in Key |-> <<>>]
    /\ UNCHANGED <<type, published>>

Next ==
    \/ \E k \in Key, t \in Type : Register(k, t)
    \/ \E k \in Key : Remove(k)
    \/ \E t \in Type : Publish(t)
    \/ Dispatch

Spec == Init /\ [][Next]_vars
=============================================================================
