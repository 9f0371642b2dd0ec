----------------------------- MODULE MCEventBus -----------------------------
(* Two keys and two types, three publications that alternate as those of    *)
(* main do, two dispatches, three connections: a key can be registered      *)
(* again, with the other type, before, between and after the calls.         *)
EXTENDS EventBus

CONSTANTS k1, k2, EVENT_A, EVENT_B

MCKey == {k1, k2}
MCType == {EVENT_A, EVENT_B}
MCPublications == <<EVENT_A, EVENT_B, EVENT_A>>
=============================================================================
