----------------------------- MODULE MCFailover -----------------------------
(* Instances of Failover: an agent and its replacement in the zone; or an  *)
(* agent of the zone and stand-ins.                                        *)
EXTENDS Failover, TLC

CONSTANTS o1, o2, f1, t1, t2
=============================================================================
