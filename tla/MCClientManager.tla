-------------------------- MODULE MCClientManager --------------------------
(* Two servers, each added once; the caller is main of client2.0.cpp, or    *)
(* one that also closes connections while the io threads run, with and      *)
(* without automatic reconnection.                                          *)
EXTENDS ClientManager

CONSTANTS k1, k2, l1, l2, A, B

MCKey == {k1, k2}
MCEventType == {A, B}
MCLineage == {l1, l2}

Add(k, auto, t) ==
    [op |-> "add", key |-> k, info |-> [auto |-> auto, type |-> t]]
CloseKey(k) == [op |-> "close", key |-> k]
Run == [op |-> "run"]

MCScripts ==
    { <<Add(k1, TRUE, A), Add(k2, TRUE, B), Run>>,
      <<Run, Add(k1, TRUE, B), CloseKey(k1), Add(k2, FALSE, A), CloseKey(k2)>>,
      <<Add(k1, TRUE, A), Run, Add(k2, TRUE, A), CloseKey(k1)>> }

ASSUME DisciplinedAssumption == Disciplined
=============================================================================
