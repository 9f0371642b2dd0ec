---------------------------- MODULE MCConnection ----------------------------
(* One connection, two distinct payloads, four pushes, up to three handlers *)
(* waiting: enough for a push to meet the cycle idle, writing, reading and  *)
(* ending, and for a close to be queued before or behind a completion.      *)
EXTENDS Connection

CONSTANTS m1, m2

MCMessage == {m1, m2}
=============================================================================
