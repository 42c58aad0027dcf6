----------------------------- MODULE Quantities -----------------------------
(***************************************************************************)
(* What the agent computes from durations and from counters.  Durations are*)
(* in milliseconds; a counter of /proc/stat is unsigned, and so is every   *)
(* sum and difference of counters: they are numbers modulo Modulus.        *)
(***************************************************************************)
EXTENDS Integers

CONSTANT Modulus  \* 2^64

ASSUME ModulusAssumption == Modulus \in Nat \ {0}

(* The Lease is renewed four times within its duration, but not more often *)
(* than every second, and at least as often as the reconcile loop ticks.   *)
LeaseRenewInterval(lease, reconcile) ==
    LET quarter == lease \div 4
        floored == IF quarter < 1000 THEN 1000 ELSE quarter
    IN IF reconcile > 0 /\ floored > reconcile THEN reconcile ELSE floored

(* LeaseDurationSeconds holds the duration in whole seconds.               *)
LeaseValidFor(lease) == 1000 * (lease \div 1000)

(* A CPU sample: ticks spent busy (all kinds together), idle and in iowait.*)
Samples == [busy : Nat, idle : Nat, iowait : Nat]
Sum(s) == s.busy + s.idle + s.iowait
Total(s) == Sum(s) % Modulus
Busy(s) == (Total(s) - s.idle - s.iowait) % Modulus
TotalDelta(prev, cur) == (Total(cur) - Total(prev)) % Modulus
BusyDelta(prev, cur) == (Busy(cur) - Busy(prev)) % Modulus

(* The busy share of the ticks between two samples, as a fraction: 0 when  *)
(* no tick passed.  The second clamp of the code has nothing to clamp, as  *)
(* an unsigned difference is never negative.                               *)
CPURatio(prev, cur) ==
    LET busy == IF BusyDelta(prev, cur) < 0 THEN 0 ELSE BusyDelta(prev, cur)
    IN IF TotalDelta(prev, cur) <= 0
       THEN [num |-> 0, den |-> 1]
       ELSE [num |-> busy, den |-> TotalDelta(prev, cur)]

Follows(prev, cur) == prev.busy <= cur.busy /\ prev.idle <= cur.idle /\ prev.iowait <= cur.iowait
=============================================================================
