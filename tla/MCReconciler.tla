---------------------------- MODULE MCReconciler ----------------------------
(* A zone with one route table in a VPC with two NAT gateways.             *)
EXTENDS Reconciler, TLC

CONSTANTS t1, n1, n2
=============================================================================
