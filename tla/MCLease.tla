------------------------------ MODULE MCLease ------------------------------
(* Instances of Lease: o1 and its rival o2 in the zone, o1 with two        *)
(* goroutines on the Lease; or o1 and f from another zone.                 *)
EXTENDS Lease, TLC

CONSTANTS o1, o2, f, home, far, l1, l2, l3

AllAgents == {o1, o2, f}
Zones == {home, far}
ZoneOf == [a \in AllAgents |-> IF a = f THEN far ELSE home]

(* l1 and l2 are o1's lease loop and reconcile loop.                       *)
TwoLoops == {l1, l2, l3}
TwoLoopsOf == [c \in TwoLoops |-> IF c = l3 THEN o2 ELSE o1]
LoopSymmetry == Permutations({l1, l2})

Pair == {o1, f}
PairZones == [a \in Pair |-> IF a = f THEN far ELSE home]
PairOf == [c \in Pair |-> c]
=============================================================================
