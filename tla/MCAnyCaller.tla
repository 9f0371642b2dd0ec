---------------------------- MODULE MCAnyCaller ----------------------------
(* Callers that reuse a key: it is added again while its first connection   *)
(* lives, or reloaded with other parameters.  Two lineages then compete for *)
(* the same entries, and connections may lose their last owner.             *)
EXTENDS ClientManager

CONSTANTS k1, k2, l1, l2, l3, A, B

MCKey == {k1, k2}
MCEventType == {A, B}
MCLineage == {l1, l2, l3}

Add(k, auto, t) ==
    [op |-> "add", key |-> k, info |-> [auto |-> auto, type |-> t]]
CloseKey(k) == [op |-> "close", key |-> k]
Reload(ps) == [op |-> "reload", params |-> ps]

MCScripts ==
    { <<Add(k1, TRUE, A), Add(k1, FALSE, B), CloseKey(k1)>>,
      <<Add(k1, TRUE, A), Reload(<<Add(k1, TRUE, B)>>)>>,
      <<Add(k1, TRUE, A), Add(k2, TRUE, B), [op |-> "run"],
        Reload(<<Add(k2, TRUE, A)>>)>> }
=============================================================================
