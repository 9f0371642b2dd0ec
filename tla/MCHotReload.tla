---------------------------- MODULE MCHotReload ----------------------------
(* main of client1.0.cpp with two old servers and one new one.             *)
EXTENDS HotReload

CONSTANTS k1, k2, k3, l1, l2, l3, A

MCOldKey == {k1, k2}
MCNewKey == {k3}
MCKey == {k1, k2, k3}
MCEventType == {A}
MCLineage == {l1, l2, l3}

Add(k) == [op |-> "add", key |-> k, info |-> [auto |-> TRUE, type |-> A]]

MCScripts == {Main(<<Add(k1), Add(k2)>>, <<Add(k3)>>)}

ASSUME MainAssumption == RunsMain
=============================================================================
