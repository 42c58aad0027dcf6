---------------------------- MODULE MCDashboard ----------------------------
(* Two agents, in two zones or in one, and a browser that watches them.    *)
EXTENDS Dashboard, TLC

CONSTANTS a1, a2, za, zb, b1

AgentZones == [a \in {a1, a2} |-> IF a = a1 THEN za ELSE zb]
ByName == [a \in {a1, a2} |-> IF a = a1 THEN 1 ELSE 2]
TakenBefore == {<<zb, za>>}
OneBrowser == {b1}
LoopAndOne == {"loop", b1}
=============================================================================
